---- MODULE Spec2Model ----
(***************************************************************************)
(* A model of idnits: the command line run (cli.mjs), the TXT structural   *)
(* parser (lib/parsers/txt.mjs), and the metadata / reference validators   *)
(* (lib/modules/metadata.mjs, lib/modules/downref.mjs).                    *)
(*                                                                         *)
(* Text is modelled character by character: a string is a sequence of      *)
(* one-character strings, and every regular expression of the source is    *)
(* written as a syntax tree that a small matcher interprets.               *)
(***************************************************************************)
EXTENDS Integers, Sequences, FiniteSets, TLC

VARIABLES
  cli,        \* the command line run: argv, program counter, findings, output, exit code
  lastIndex,  \* lastIndex of the module-level /g regular expressions of the process
  txt,        \* the TXT parse calls of the process
  val         \* the validator calls of the process

vars == <<cli, lastIndex, txt, val>>

(***************************************************************************)
(* Bounds of the model.                                                    *)
(***************************************************************************)
\* longest finding list checkNits hands to the command line
MaxFindings == 3

(***************************************************************************)
(* Characters.                                                             *)
(***************************************************************************)
WhiteSpace == {" ", "\t", "\f"}
Digit == {"0", "1", "2", "3", "4", "5", "6", "7", "8", "9"}
LowerAlphabet == <<"a","b","c","d","e","f","g","h","i","j","k","l","m",
                   "n","o","p","q","r","s","t","u","v","w","x","y","z">>
UpperAlphabet == <<"A","B","C","D","E","F","G","H","I","J","K","L","M",
                   "N","O","P","Q","R","S","T","U","V","W","X","Y","Z">>
Lower == {LowerAlphabet[i] : i \in 1..26}
Upper == {UpperAlphabet[i] : i \in 1..26}
Punct == {".", ",", ":", "-", "_", "[", "]", "<", ">", "/", "*", "#", "'", "\""}
\* every character a line of the model may hold (no line terminator)
Char == WhiteSpace \cup Digit \cup Lower \cup Upper \cup Punct
\* \w of a regular expression
WordChar == Digit \cup Lower \cup Upper \cup {"_"}
\* both cases of a letter, for the i flag
BothCases(c) ==
  IF c \in Lower \/ c \in Upper
  THEN LET k == CHOOSE i \in 1..26 : LowerAlphabet[i] = c \/ UpperAlphabet[i] = c
       IN {LowerAlphabet[k], UpperAlphabet[k]}
  ELSE {c}
ToLowerChar(c) ==
  IF c \in Upper THEN LowerAlphabet[CHOOSE i \in 1..26 : UpperAlphabet[i] = c] ELSE c
\* String.prototype.toLowerCase
ToLowerCase(s) == [i \in 1..Len(s) |-> ToLowerChar(s[i])]

Max(S) == CHOOSE m \in S : \A n \in S : n <= m
Min(S) == CHOOSE m \in S : \A n \in S : m <= n

(***************************************************************************)
(* Regular expressions: syntax trees and the matcher.                      *)
(* Ends(r, s, i) is the set of offsets at which a match of r that starts   *)
(* at offset i of s can end (offsets count from 0).                        *)
(***************************************************************************)
Chr(S) == [t |-> "chr", cs |-> S]
Cat(rs) == [t |-> "cat", rs |-> rs]
Alt(rs) == [t |-> "alt", rs |-> rs]
Star(r) == [t |-> "star", r |-> r]
NotAhead(r) == [t |-> "nla", r |-> r]
Eps == [t |-> "eps"]
Bol == [t |-> "bol"]
Eol == [t |-> "eol"]
WordBoundary == [t |-> "wb"]
Plus(r) == Cat(<<r, Star(r)>>)
Opt(r) == Alt(<<r, Eps>>)
Dot == Chr(Char)
\* a literal, case sensitive and under the i flag
Lit(s) == Cat([i \in 1..Len(s) |-> Chr({s[i]})])
LitI(s) == Cat([i \in 1..Len(s) |-> Chr(BothCases(s[i]))])

RECURSIVE Ends(_, _, _), CatEnds(_, _, _, _), StarEnds(_, _, _)
Ends(r, s, i) ==
  CASE r.t = "chr" -> IF i < Len(s) /\ s[i + 1] \in r.cs THEN {i + 1} ELSE {}
    [] r.t = "eps" -> {i}
    [] r.t = "bol" -> IF i = 0 THEN {i} ELSE {}
    [] r.t = "eol" -> IF i = Len(s) THEN {i} ELSE {}
    [] r.t = "wb"  -> IF (i > 0 /\ s[i] \in WordChar) # (i < Len(s) /\ s[i + 1] \in WordChar)
                      THEN {i} ELSE {}
    [] r.t = "cat" -> CatEnds(r.rs, 1, s, {i})
    [] r.t = "alt" -> UNION {Ends(r.rs[k], s, i) : k \in 1..Len(r.rs)}
    [] r.t = "star" -> StarEnds(r.r, s, {i})
    [] r.t = "nla" -> IF Ends(r.r, s, i) = {} THEN {i} ELSE {}
CatEnds(rs, k, s, P) ==
  IF k > Len(rs) \/ P = {} THEN P
  ELSE CatEnds(rs, k + 1, s, UNION {Ends(rs[k], s, j) : j \in P})
StarEnds(r, s, P) ==
  LET N == P \cup UNION {Ends(r, s, j) : j \in P}
  IN IF N = P THEN P ELSE StarEnds(r, s, N)

\* offsets >= from at which a match of r starts
MatchStarts(r, s, from) == {i \in from..Len(s) : Ends(r, s, i) # {}}
\* RegExp.prototype.test of a regular expression without the g flag
RegexTest(r, s) == MatchStarts(r, s, 0) # {}
\* RegExp.prototype.exec / test of a /g regular expression whose lastIndex is li:
\* the search starts at li, a match moves lastIndex to its end, a miss resets it.
\* (The quantifiers are greedy and no pattern of the model has to give back
\* what they took: a match ends at the last of its possible ends.)
RegexExecG(r, s, li) ==
  IF li <= Len(s) /\ MatchStarts(r, s, li) # {}
  THEN LET b == Min(MatchStarts(r, s, li))
       IN [found |-> TRUE, index |-> b, lastIndex |-> Max(Ends(r, s, b))]
  ELSE [found |-> FALSE, index |-> 0, lastIndex |-> 0]

(***************************************************************************)
(* Strings.                                                                *)
(***************************************************************************)
\* String.prototype.trim
RECURSIVE TrimStart(_), TrimEnd(_)
TrimStart(s) == IF s # <<>> /\ Head(s) \in WhiteSpace THEN TrimStart(Tail(s)) ELSE s
TrimEnd(s) ==
  IF s # <<>> /\ s[Len(s)] \in WhiteSpace THEN TrimEnd(SubSeq(s, 1, Len(s) - 1)) ELSE s
Trim(s) == TrimEnd(TrimStart(s))
\* String.prototype.startsWith / includes / indexOf(c) >= 0
StartsWith(s, p) == Len(p) <= Len(s) /\ SubSeq(s, 1, Len(p)) = p
Includes(s, p) == \E i \in 0..(Len(s) - Len(p)) : SubSeq(s, i + 1, i + Len(p)) = p
HasChar(s, c) == \E i \in 1..Len(s) : s[i] = c

(***************************************************************************)
(* The command line run (cli.mjs).                                         *)
(***************************************************************************)
\* the classes of a finding (helpers/error.mjs)
Severity == {"ValidationError", "ValidationWarning", "ValidationComment"}
\* the choices of --output
OutputFormat == {"pretty", "json", "count"}
\* the failures checkNits throws before any rule runs
FatalFailure == {"TXT_PARSING_FAILED", "XML_PARSING_FAILED"}
\* the finding lists checkNits may resolve with
FindingLists == UNION {[1..n -> Severity] : n \in 0..MaxFindings}

HasError(findings) == \E i \in 1..Len(findings) : findings[i] = "ValidationError"

CliIdle ==
  [pc |-> "idle", output |-> "pretty", result |-> <<>>, thrown |-> "none",
   printed |-> "none", exitCode |-> -1]

\* yargs has parsed argv
CliStart(o) == [CliIdle EXCEPT !.pc = "read", !.output = o]

\* readFile(docPath) fails: the catch prints and calls process.exit(1)
CliReadFails ==
  /\ cli.pc = "read"
  /\ cli' = [cli EXCEPT !.pc = "exited", !.thrown = "READ_FAILED", !.exitCode = 1]
  /\ UNCHANGED <<lastIndex, txt, val>>

\* readFile(docPath) succeeds
CliReadDocument ==
  /\ cli.pc = "read"
  /\ cli' = [cli EXCEPT !.pc = "validate"]
  /\ UNCHANGED <<lastIndex, txt, val>>

\* await checkNits(...) resolves with a finding list
CliCheckNits ==
  /\ cli.pc = "validate"
  /\ \E r \in FindingLists : cli' = [cli EXCEPT !.pc = "output", !.result = r]
  /\ UNCHANGED <<lastIndex, txt, val>>

\* await checkNits(...) rejects: the catch prints and calls process.exit(1)
CliCheckNitsThrows ==
  /\ cli.pc = "validate"
  /\ \E e \in FatalFailure :
       cli' = [cli EXCEPT !.pc = "exited", !.thrown = e, !.exitCode = 1]
  /\ UNCHANGED <<lastIndex, txt, val>>

\* what the switch on argv.output prints for a finding list
JsonResult(result) == IF Len(result) > 0 THEN "fail" ELSE "pass"
PrettyBanner(result) == IF Len(result) = 0 THEN "PASS" ELSE "FAIL"

\* the switch on argv.output; the script then ends and node exits with code 0
CliOutput ==
  /\ cli.pc = "output"
  /\ cli' = [cli EXCEPT
       !.pc = "exited",
       !.printed = CASE cli.output = "count" -> "count"
                     [] cli.output = "json" -> JsonResult(cli.result)
                     [] cli.output = "pretty" -> PrettyBanner(cli.result),
       !.exitCode = 0]
  /\ UNCHANGED <<lastIndex, txt, val>>

NextCli ==
  \/ CliReadFails
  \/ CliReadDocument
  \/ CliCheckNits
  \/ CliCheckNitsThrows
  \/ CliOutput

(***************************************************************************)
(* The TXT parser (lib/parsers/txt.mjs): its regular expressions.          *)
(***************************************************************************)
Letter == Lower \cup Upper
\* [‘’‛'`"]: the quotes of it that a line of the model may hold
QuoteChar == {"'", "\""}

\* /^(?<left>.*)\s{1,}(?<right>.*)$/: the split at a single white-space character
LineValuesAtOneSpace(s) ==
  LET tail == Cat(<<Chr(WhiteSpace), Star(Chr(WhiteSpace)), Star(Dot), Eol>>)
      starts == MatchStarts(tail, s, 0)
      l == Max(starts)
      w == Max(Ends(Cat(<<Chr(WhiteSpace), Star(Chr(WhiteSpace))>>), s, l))
  IN IF starts = {}
     THEN [found |-> FALSE, left |-> <<>>, right |-> <<>>]
     ELSE [found |-> TRUE, left |-> SubSeq(s, 1, l), right |-> SubSeq(s, w + 1, Len(s))]

\* /^(?<left>.*)\s{2,}(?<right>.*)$/, run with exec: the groups of the match
\* backtracking finds (left is greedy, so it ends at the last offset that two
\* white-space characters follow), or found = FALSE when exec returns null
LINE_VALUES_EXTRACT_RE(s) ==
  LET tail == Cat(<<Chr(WhiteSpace), Chr(WhiteSpace), Star(Chr(WhiteSpace)), Star(Dot), Eol>>)
      starts == MatchStarts(tail, s, 0)
      l == Max(starts)
      w == Max(Ends(Cat(<<Chr(WhiteSpace), Chr(WhiteSpace), Star(Chr(WhiteSpace))>>), s, l))
  IN IF starts = {}
     THEN [found |-> FALSE, left |-> <<>>, right |-> <<>>]
     ELSE [found |-> TRUE, left |-> SubSeq(s, 1, l), right |-> SubSeq(s, w + 1, Len(s))]

\* /^[a-z]\.\s[a-z]+$/i
AUTHOR_NAME_RE ==
  Cat(<<Bol, Chr(Letter), Chr({"."}), Chr(WhiteSpace), Plus(Chr(Letter)), Eol>>)

\* /^(?:(?<day>[0-9]{1,2})\s)?(?<month>[a-z]{3,})\s(?<year>[0-9]{4})$/i
DATE_RE ==
  Cat(<<Bol, Opt(Cat(<<Chr(Digit), Opt(Chr(Digit)), Chr(WhiteSpace)>>)),
        Chr(Letter), Chr(Letter), Chr(Letter), Star(Chr(Letter)), Chr(WhiteSpace),
        Chr(Digit), Chr(Digit), Chr(Digit), Chr(Digit), Eol>>)

\* /^\d+\.\s+.+$/
SECTION_PATTERN ==
  Cat(<<Bol, Plus(Chr(Digit)), Chr({"."}), Plus(Chr(WhiteSpace)), Plus(Dot), Eol>>)

\* /^\d+\.\d+\.\s+(.+)$/ig
SUBSECTION_PATTERN ==
  Cat(<<Bol, Plus(Chr(Digit)), Chr({"."}), Plus(Chr(Digit)), Chr({"."}),
        Plus(Chr(WhiteSpace)), Plus(Dot), Eol>>)

\* /\.+\s*\d+$/
TOC_PATTERN == Cat(<<Plus(Chr({"."})), Star(Chr(WhiteSpace)), Plus(Chr(Digit)), Eol>>)

\* /\bRFC\s?(\d+)\b|\[RFC(\d+)\]/gi
RFC_REFERENCE_RE ==
  Alt(<<Cat(<<WordBoundary, LitI(<<"R","F","C">>), Opt(Chr(WhiteSpace)), Plus(Chr(Digit)),
              WordBoundary>>),
        Cat(<<Chr({"["}), LitI(<<"R","F","C">>), Plus(Chr(Digit)), Chr({"]"})>>)>>)

\* /\[(?!RFC\d+)[a-zA-Z0-9-.]+\]/gi
NON_RFC_REFERENCE_RE ==
  Cat(<<Chr({"["}), NotAhead(Cat(<<LitI(<<"R","F","C">>), Plus(Chr(Digit))>>)),
        Plus(Chr(Letter \cup Digit \cup {"-", "."})), Chr({"]"})>>)

\* /[A-Za-z][a-z] {2} ? ?[a-z]/
SPACING_PATTERN ==
  Cat(<<Chr(Letter), Chr(Lower), Chr({" "}), Chr({" "}), Opt(Chr({" "})), Opt(Chr({" "})),
        Chr(Lower)>>)

\* [0-9a-z.]*\s* under the i flag, the prefix of four author heading patterns
HeadingPrefix == Cat(<<Star(Chr(Digit \cup Letter \cup {"."})), Star(Chr(WhiteSpace))>>)
AuthorOrEditor == Alt(<<LitI(<<"a","u","t","h","o","r">>), LitI(<<"e","d","i","t","o","r">>)>>)

\* AUTHORS_OR_EDITORS_ADDRESSES_RE | AUTHOR_INFORMATION_RE |
\* AUTHOR_CONTACT_INFORMATION_RE | CONTACT_INFORMATION_RE | AUTHOR_EDITORS_RE, flag i
AUTHOR_SECTION_RE ==
  Alt(<<Cat(<<Bol, AuthorOrEditor, Opt(LitI(<<"s">>)), Chr(QuoteChar), LitI(<<" ","A","d","d","r","e","s","s","e","s">>), Eol>>),
        Cat(<<Bol, HeadingPrefix, LitI(<<"a","u","t","h","o","r"," ","i","n","f","o","r","m","a","t","i","o","n">>), Eol>>),
        Cat(<<Bol, HeadingPrefix, AuthorOrEditor,
              Opt(Alt(<<Cat(<<Chr(QuoteChar), Opt(LitI(<<"s">>))>>), LitI(<<"s">>)>>)),
              Plus(Chr(WhiteSpace)), LitI(<<"c","o","n","t","a","c","t"," ","i","n","f","o","r","m","a","t","i","o","n">>), Eol>>),
        Cat(<<Bol, HeadingPrefix, LitI(<<"c","o","n","t","a","c","t"," ","i","n","f","o","r","m","a","t","i","o","n">>), Eol>>),
        Cat(<<Bol, HeadingPrefix, AuthorOrEditor, Opt(LitI(<<"s">>)), Opt(Chr({":"})), Eol>>)>>)

\* /\/\*|\*\/|^ *#/ig
INLINE_CODE_FORMAT ==
  Alt(<<Lit(<<"/","*">>), Lit(<<"*","/">>), Cat(<<Bol, Star(Chr({" "})), Chr({"#"})>>)>>)

\* /^\d+\.\s+ ... $/i, the shape of the numbered section matchers
NumberedHeading(title) ==
  Cat(<<Bol, Plus(Chr(Digit)), Chr({"."}), Plus(Chr(WhiteSpace)), title, Eol>>)

sectionMatchers ==
  <<[name |-> "introduction",
     regex |-> NumberedHeading(Alt(<<LitI(<<"I","n","t","r","o","d","u","c","t","i","o","n">>), LitI(<<"O","v","e","r","v","i","e","w">>),
                                     LitI(<<"B","a","c","k","g","r","o","u","n","d">>)>>))],
    [name |-> "securityConsiderations",
     regex |-> NumberedHeading(LitI(<<"S","e","c","u","r","i","t","y"," ","C","o","n","s","i","d","e","r","a","t","i","o","n","s">>))],
    [name |-> "authorAddress", regex |-> AUTHOR_SECTION_RE],
    [name |-> "references", regex |-> NumberedHeading(LitI(<<"R","e","f","e","r","e","n","c","e","s">>))],
    [name |-> "ianaConsiderations",
     regex |-> NumberedHeading(LitI(<<"I","A","N","A"," ","C","o","n","s","i","d","e","r","a","t","i","o","n","s">>))]>>

\* /^\d+\.\d+\.\s+ ... $/i, the shape of the subsection matchers
NumberedSubHeading(title) ==
  Cat(<<Bol, Plus(Chr(Digit)), Chr({"."}), Plus(Chr(Digit)), Chr({"."}),
        Plus(Chr(WhiteSpace)), title, Eol>>)

subsectionMatchers ==
  <<[name |-> "normative_references",
     regex |-> NumberedSubHeading(Cat(<<LitI(<<"N","o","r","m","a","t","i","v","e">>), Plus(Chr(WhiteSpace)),
                                        LitI(<<"R","e","f","e","r","e","n","c","e","s">>)>>))],
    [name |-> "informative_references",
     regex |-> NumberedSubHeading(Cat(<<LitI(<<"I","n","f","o","r","m","a","t","i","v","e">>), Plus(Chr(WhiteSpace)),
                                        LitI(<<"R","e","f","e","r","e","n","c","e","s">>)>>))],
    [name |-> "unclassified_references",
     regex |-> NumberedSubHeading(Cat(<<Star(Cat(<<Plus(Chr(Letter)), Plus(Chr(WhiteSpace))>>)),
                                        LitI(<<"R","e","f","e","r","e","n","c","e">>), Opt(LitI(<<"s">>))>>))]>>

\* /<CODE BEGINS>/i and /<CODE ENDS>/i
CODE_BEGINS_RE == LitI(<<"<","C","O","D","E"," ","B","E","G","I","N","S",">">>)
CODE_ENDS_RE == LitI(<<"<","C","O","D","E"," ","E","N","D","S",">">>)

\* Array.prototype.find over a matcher table: the name of the first matcher whose
\* regex matches, or "null"
FindMatcher(matchers, s) ==
  LET hits == {k \in 1..Len(matchers) : RegexTest(matchers[k].regex, s)}
  IN IF hits = {} THEN "null" ELSE matchers[Min(hits)].name

\* the successive matches of a /g regular expression, as exec in a loop (or
\* matchAll) finds them from offset `from`: <<[index, end], ...>>
RECURSIVE AllMatches(_, _, _)
AllMatches(r, s, from) ==
  LET m == RegexExecG(r, s, from)
  IN IF ~m.found THEN <<>>
     ELSE <<[index |-> m.index, end |-> m.lastIndex]>>
            \o AllMatches(r, s, IF m.lastIndex = m.index THEN m.index + 1 ELSE m.lastIndex)

(***************************************************************************)
(* The TXT parser: the locals of parse and the stages of one iteration of   *)
(* its line loop.  null is <<>> and a value v that may be null is <<v>>.    *)
(* The fields parse only writes from patterns of modules outside the        *)
(* sources at hand (fqdnDomains, ipv4, ipv6, intendedStatus, category), the *)
(* keyword lists, issn, expires and the boilerplate and license flags are   *)
(* left out: no statement of the loop reads them.                           *)
(***************************************************************************)
Null == <<>>
Some(v) == <<v>>
InSeq(seq, v) == \E k \in 1..Len(seq) : seq[k] = v

RECURSIVE Split(_, _)
Split(s, c) ==
  IF ~HasChar(s, c) THEN <<s>>
  ELSE LET k == Min({i \in 1..Len(s) : s[i] = c})
       IN <<SubSeq(s, 1, k - 1)>> \o Split(SubSeq(s, k + 1, Len(s)), c)

DigitValue(c) == CHOOSE d \in 0..9 : ToString(d) = c
RECURSIVE ParseInt(_)
ParseInt(s) == IF s = <<>> THEN 0 ELSE 10 * ParseInt(SubSeq(s, 1, Len(s) - 1)) + DigitValue(s[Len(s)])

SectionNames == {"abstract", "introduction", "securityConsiderations", "authorAddress",
                 "references", "ianaConsiderations"}

markersInit ==
  [header |-> [start |-> 0, end |-> 0, lastAuthor |-> 0, closed |-> FALSE],
   title |-> 0,
   slug |-> 0,
   abstract |-> [start |-> 0, end |-> 0, closed |-> FALSE],
   introduction |-> [start |-> 0, end |-> 0, closed |-> FALSE],
   securityConsiderations |-> [start |-> 0, end |-> 0, closed |-> FALSE],
   authorAddress |-> [start |-> 0, end |-> 0, closed |-> FALSE],
   references |-> [start |-> 0, end |-> 0, closed |-> FALSE],
   ianaConsiderations |-> [start |-> 0, end |-> 0, closed |-> FALSE]]

dataInit ==
  [pageCount |-> 1,
   header |-> [authors |-> <<>>, date |-> Null, source |-> Null, obsoletes |-> Null,
               rfcNumber |-> Null],
   content |-> [n \in SectionNames |-> Null],
   title |-> Null,
   slug |-> Null,
   extractedElements |-> [nonReferenceSectionRfc |-> <<>>,
                          referenceSectionRfc |-> <<>>,
                          nonReferenceSectionDraftReferences |-> <<>>,
                          referenceSectionDraftReferences |-> <<>>],
   possibleIssues |-> [linesWithSpaces |-> <<>>, inlineCode |-> <<>>],
   references |-> [rfc2119 |-> FALSE, rfc8174 |-> FALSE],
   contains |-> [codeBlocks |-> FALSE]]

\* the locals of parse before its loop; flow tells how an iteration ended:
\* "next" (fell through), "continue" or "throw"
ParseLocals(li) ==
  [markers |-> markersInit, data |-> dataInit, docKind |-> "null",
   currentSection |-> "null", currentSubSection |-> "null", inCodeBlock |-> FALSE,
   lastIndex |-> li, flow |-> "next"]

\* while ((rfcMatch = RFC_REFERENCE_RE.exec(trimmedLine)) !== null): the body of
\* the loop for the matches ms; the loop ends on null, lastIndex back at 0; the
\* mutation pushes every match outside the references section
RECURSIVE PushRfcMatchesEveryOccurrence(_, _, _, _)
PushRfcMatchesEveryOccurrence(c, ms, s, ee) ==
  IF ms = <<>> THEN ee
  ELSE LET rfcNumber == SelectSeq(SubSeq(s, Head(ms).index + 1, Head(ms).end),
                                  LAMBDA ch : ch \in Digit)
           pushed ==
             IF c.currentSection # "references"
             THEN [ee EXCEPT !.nonReferenceSectionRfc = Append(@, rfcNumber)]
             ELSE IF ~\E k \in 1..Len(ee.referenceSectionRfc) :
                        ee.referenceSectionRfc[k].value = rfcNumber
                  THEN [ee EXCEPT !.referenceSectionRfc =
                          Append(@, [value |-> rfcNumber, subsection |-> c.currentSubSection])]
                  ELSE ee
       IN PushRfcMatchesEveryOccurrence(c, Tail(ms), s, pushed)
RECURSIVE PushRfcMatches(_, _, _, _)
PushRfcMatches(c, ms, s, ee) ==
  IF ms = <<>> THEN ee
  ELSE LET rfcNumber == SelectSeq(SubSeq(s, Head(ms).index + 1, Head(ms).end),
                                  LAMBDA ch : ch \in Digit)
           pushed ==
             IF c.currentSection # "references"
             THEN IF ~InSeq(ee.nonReferenceSectionRfc, rfcNumber)
                  THEN [ee EXCEPT !.nonReferenceSectionRfc = Append(@, rfcNumber)]
                  ELSE ee
             ELSE IF ~\E k \in 1..Len(ee.referenceSectionRfc) :
                        ee.referenceSectionRfc[k].value = rfcNumber
                  THEN [ee EXCEPT !.referenceSectionRfc =
                          Append(@, [value |-> rfcNumber, subsection |-> c.currentSubSection])]
                  ELSE ee
       IN PushRfcMatches(c, Tail(ms), s, pushed)

\* while ((draftMatch = NON_RFC_REFERENCE_RE.exec(trimmedLine)) !== null)
RECURSIVE PushDraftMatches(_, _, _, _)
PushDraftMatches(c, ms, s, ee) ==
  IF ms = <<>> THEN ee
  ELSE LET draftName == SubSeq(s, Head(ms).index + 1, Head(ms).end)
           pushed ==
             IF c.currentSection # "references"
             THEN IF ~InSeq(ee.nonReferenceSectionDraftReferences, draftName)
                  THEN [ee EXCEPT !.nonReferenceSectionDraftReferences = Append(@, draftName)]
                  ELSE ee
             ELSE IF ~\E k \in 1..Len(ee.referenceSectionDraftReferences) :
                        ee.referenceSectionDraftReferences[k].value = draftName
                  THEN [ee EXCEPT !.referenceSectionDraftReferences =
                          Append(@, [value |-> draftName, subsection |-> c.currentSubSection])]
                  ELSE ee
       IN PushDraftMatches(c, Tail(ms), s, pushed)

ReferenceStage(c, trimmedLine) ==
  LET rfcs == PushRfcMatches(c, AllMatches(RFC_REFERENCE_RE, trimmedLine, 0), trimmedLine,
                             c.data.extractedElements)
      drafts == PushDraftMatches(c, AllMatches(NON_RFC_REFERENCE_RE, trimmedLine, 0),
                                 trimmedLine, rfcs)
  IN [c EXCEPT !.data.extractedElements = drafts,
               !.data.references.rfc2119 = @ \/ RegexTest(LitI(<<"[","R","F","C","2","1","1","9","]">>), trimmedLine),
               !.data.references.rfc8174 = @ \/ RegexTest(LitI(<<"[","R","F","C","8","1","7","4","]">>), trimmedLine)]

SpacingStage(c, line, trimmedLine, lineIdx) ==
  IF /\ RegexTest(SPACING_PATTERN, trimmedLine)
     /\ ~StartsWith(Trim(trimmedLine), <<"I","n","t","e","r","n","e","t",".","D","r","a","f","t">>)
     /\ ~StartsWith(Trim(trimmedLine), <<"I","N","T","E","R","N","E","T",".","D","R","A","F","T">>)
  THEN [c EXCEPT !.data.possibleIssues.linesWithSpaces =
                   Append(@, [line |-> lineIdx, pos |-> Len(line)])]
  ELSE c

CodeBlockStage(c, trimmedLine) ==
  LET begins == RegexTest(CODE_BEGINS_RE, trimmedLine)
      ends == RegexTest(CODE_ENDS_RE, trimmedLine)
  IN [c EXCEPT !.inCodeBlock = IF ends THEN FALSE ELSE IF begins THEN TRUE ELSE @,
               !.data.contains.codeBlocks = @ \/ begins]

\* INLINE_CODE_FORMAT.exec(line): the search starts at the lastIndex the pattern
\* object holds and leaves the end of the match, or 0, in it
InlineCodeStage(c, line, lineIdx) ==
  IF c.inCodeBlock THEN c
  ELSE LET match == RegexExecG(INLINE_CODE_FORMAT, line, c.lastIndex.INLINE_CODE_FORMAT)
       IN [c EXCEPT !.lastIndex.INLINE_CODE_FORMAT = match.lastIndex,
                    !.data.possibleIssues.inlineCode =
                      IF match.found
                      THEN Append(@, [line |-> lineIdx, pos |-> match.index + 1])
                      ELSE @]

\* data.header.authors.findLast(el => ...): the callback runs from the last author
\* backwards, gives every author that has no org the value and stops at the first
\* author that has one; the mutation stops at the first author it gives the value
AssignOrgToOne(authors, value) ==
  LET without == {k \in 1..Len(authors) : authors[k].org = Null}
  IN [k \in 1..Len(authors) |->
        IF without # {} /\ k = Max(without) THEN [authors[k] EXCEPT !.org = Some(value)]
        ELSE authors[k]]
AssignOrg(authors, value) ==
  LET withOrg == {k \in 1..Len(authors) : authors[k].org # Null}
      stop == IF withOrg = {} THEN 0 ELSE Max(withOrg)
  IN [k \in 1..Len(authors) |->
        IF k > stop THEN [authors[k] EXCEPT !.org = Some(value)] ELSE authors[k]]

\* values.left.split(':')?.[1]?.trim(): null stands for undefined
SecondField(left) ==
  LET fields == Split(left, ":")
  IN IF Len(fields) < 2 THEN Null ELSE Some(Trim(fields[2]))

\* the groups of DATE_RE in a string it matches, after parseInt (null: NaN)
DateOf(left) ==
  LET n == Len(left)
      dayLen == IF left[1] \notin Digit THEN 0 ELSE IF left[2] \in Digit THEN 2 ELSE 1
  IN [day |-> IF dayLen = 0 THEN Null ELSE Some(ParseInt(SubSeq(left, 1, dayLen))),
      month |-> SubSeq(left, IF dayLen = 0 THEN 1 ELSE dayLen + 2, n - 5),
      year |-> ParseInt(SubSeq(left, n - 3, n))]

\* a line of the header after its first: `left` and `right` are the groups of
\* LINE_VALUES_EXTRACT_RE.exec(line), or the trimmed line and null
LineValues(extractedValues, trimmedLine) ==
  [left |-> IF extractedValues.found THEN extractedValues.left ELSE trimmedLine,
   right |-> IF extractedValues.found THEN Some(extractedValues.right) ELSE Null]

\* lines 423-455: the author of the line, or the organisation of the authors
\* above it; exec turns a null argument into the string "null"
HeaderAuthors(c, right, rightText, lineIdx) ==
  IF RegexTest(AUTHOR_NAME_RE, rightText)
  THEN Append(IF lineIdx > c.markers.header.lastAuthor + 1
              THEN AssignOrg(c.data.header.authors, <<>>)
              ELSE c.data.header.authors,
              [name |-> rightText, org |-> Null])
  ELSE IF right # Null /\ right[1] # <<>>
       THEN AssignOrg(c.data.header.authors, right[1])
       ELSE c.data.header.authors

\* lines 386-389: the list after "Obsoletes:"
ObsoletesOf(obsoletesValues) ==
  IF HasChar(obsoletesValues, ",")
  THEN [k \in 1..Len(Split(obsoletesValues, ",")) |-> Trim(Split(obsoletesValues, ",")[k])]
  ELSE <<obsoletesValues>>

\* lines 366-456 for the values of a line: isRfc, the field after the colon
\* and the date are what the line holds
HeaderFields(c, left, right, lineIdx, isRfc, secondField, date) ==
  IF left = <<>> THEN c
  ELSE IF StartsWith(left, <<"O","b","s","o","l","e","t","e","s">>) /\ secondField = Null
  THEN [c EXCEPT !.flow = "throw"]     \* obsoletesValues.indexOf on undefined
  ELSE [c EXCEPT
          !.docKind = IF Includes(left, <<"I","n","t","e","r","n","e","t","-","D","r","a","f","t">>) THEN "draft"
                      ELSE IF isRfc THEN "rfc" ELSE @,
          !.data.header.rfcNumber = IF isRfc THEN secondField ELSE @,
          !.data.header.obsoletes =
            IF StartsWith(left, <<"O","b","s","o","l","e","t","e","s">>) THEN Some(ObsoletesOf(secondField[1])) ELSE @,
          !.data.header.date = date,
          !.data.header.authors =
            IF date = Null
            THEN HeaderAuthors(c, right, IF right = Null THEN <<"n","u","l","l">> ELSE right[1], lineIdx)
            ELSE @,
          !.markers.header.lastAuthor = IF date = Null THEN lineIdx ELSE @]

HeaderValues(c, values, lineIdx) ==
  HeaderFields(c, values.left, values.right, lineIdx,
               ~Includes(values.left, <<"I","n","t","e","r","n","e","t","-","D","r","a","f","t">>)
                 /\ StartsWith(values.left, <<"R","e","q","u","e","s","t"," ","f","o","r"," ","C","o","m","m","e","n","t","s">>),
               SecondField(values.left),
               IF RegexTest(DATE_RE, values.left) THEN Some(DateOf(values.left))
               ELSE c.data.header.date)

HeaderLine(c, line, trimmedLine, lineIdx) ==
  HeaderValues(c, LineValues(LINE_VALUES_EXTRACT_RE(line), trimmedLine), lineIdx)

\* the first line of the header: values is null when the line holds no run
FirstHeaderLine(c, values, lineIdx) ==
  IF ~values.found
  THEN [c EXCEPT !.flow = "throw"]    \* values is null: values.groups throws
  ELSE [c EXCEPT !.markers.header.start = lineIdx,
                 !.markers.header.end = lineIdx,
                 !.markers.header.lastAuthor = lineIdx,
                 !.data.header.source = Some(values.left),
                 !.data.header.authors = Append(@, [name |-> values.right, org |-> Null]),
                 !.flow = "continue"]

\* if (!markers.header.start) ... else if (!markers.header.closed) ...; the
\* mutation closes the header without a gap
HeaderStageClosesWithoutGap(c, line, trimmedLine, lineIdx) ==
  IF c.markers.header.start = 0
  THEN FirstHeaderLine(c, LINE_VALUES_EXTRACT_RE(trimmedLine), lineIdx)
  ELSE IF ~c.markers.header.closed
  THEN IF lineIdx > c.markers.header.end
       THEN [c EXCEPT !.markers.header.closed = TRUE,
                      !.markers.title = lineIdx,
                      !.data.title = Some(trimmedLine)]
       ELSE HeaderLine([c EXCEPT !.markers.header.end = lineIdx], line, trimmedLine, lineIdx)
  ELSE c
HeaderStage(c, line, trimmedLine, lineIdx) ==
  IF c.markers.header.start = 0
  THEN FirstHeaderLine(c, LINE_VALUES_EXTRACT_RE(trimmedLine), lineIdx)
  ELSE IF ~c.markers.header.closed
  THEN IF lineIdx > c.markers.header.end + 1
       THEN [c EXCEPT !.markers.header.closed = TRUE,
                      !.markers.title = lineIdx,
                      !.data.title = Some(trimmedLine)]
       ELSE HeaderLine([c EXCEPT !.markers.header.end = lineIdx], line, trimmedLine, lineIdx)
  ELSE c

\* if (data.title && lineIdx === markers.title + 1); a statement that follows a
\* continue or a throw of the iteration is not run
SlugStage(c, trimmedLine, lineIdx) ==
  IF c.flow # "next" THEN c
  ELSE IF c.data.title # Null /\ c.data.title[1] # <<>> /\ lineIdx = c.markers.title + 1
  THEN [c EXCEPT !.markers.slug = lineIdx, !.data.slug = Some(trimmedLine), !.flow = "continue"]
  ELSE c

AbstractStage(c, line, trimmedLine, lineIdx) ==
  IF c.flow # "next" THEN c
  ELSE IF trimmedLine = <<"A","b","s","t","r","a","c","t">>
  THEN [c EXCEPT !.markers.abstract.start = lineIdx,
                 !.currentSection = "abstract",
                 !.data.content.abstract = Some(<<>>)]
  ELSE IF c.markers.abstract.start # 0 /\ ~c.markers.abstract.closed
          /\ (StartsWith(trimmedLine, <<"S","t","a","t","u","s"," ","o","f">>) \/ ~StartsWith(line, <<" "," ">>))
  THEN [c EXCEPT !.markers.abstract.end = lineIdx - 1, !.markers.abstract.closed = TRUE]
  ELSE c

\* the second if (!markers.header.start) ... else if (!markers.header.closed) ...
SecondFirstHeaderLine(c, values, lineIdx) ==
  [c EXCEPT !.markers.header.start = lineIdx,
            !.markers.header.end = lineIdx,
            !.markers.header.lastAuthor = lineIdx,
            !.data.header.source = IF values.found THEN Some(values.left) ELSE @,
            !.data.header.authors =
              IF values.found THEN Append(@, [name |-> values.right, org |-> Null]) ELSE @,
            !.flow = "continue"]
HeaderRepeatStage(c, trimmedLine, lineIdx) ==
  IF c.flow # "next" THEN c
  ELSE IF c.markers.header.start = 0
  THEN SecondFirstHeaderLine(c, LINE_VALUES_EXTRACT_RE(trimmedLine), lineIdx)
  ELSE IF ~c.markers.header.closed
  THEN IF lineIdx > c.markers.header.end + 1
       THEN [c EXCEPT !.markers.header.closed = TRUE,
                      !.markers.title = lineIdx,
                      !.data.title = Some(trimmedLine),
                      !.flow = "continue"]
       ELSE [c EXCEPT !.markers.header.end = lineIdx, !.flow = "continue"]
  ELSE c

\* lines 503-514: the open section is closed, the matched one started
CloseCurrentSection(c, lineIdx) ==
  IF c.currentSection # "null" /\ ~c.markers[c.currentSection].closed
  THEN [c EXCEPT !.markers[c.currentSection].end = lineIdx - 1,
                 !.markers[c.currentSection].closed = TRUE]
  ELSE c
StartSection(c, matchedSection, lineIdx) ==
  IF matchedSection # "null"
  THEN [c EXCEPT !.currentSection = matchedSection,
                 !.markers[matchedSection].start = lineIdx,
                 !.data.content[matchedSection] = Some(<<>>)]
  ELSE [c EXCEPT !.currentSection = "null"]

\* if (SECTION_PATTERN.test(trimmedLine) || AUTHOR_SECTION_RE.test(trimmedLine))
SectionStage(c, trimmedLine, lineIdx) ==
  IF c.flow # "next" THEN c
  ELSE IF RegexTest(SECTION_PATTERN, trimmedLine) \/ RegexTest(AUTHOR_SECTION_RE, trimmedLine)
  THEN StartSection(CloseCurrentSection(c, lineIdx), FindMatcher(sectionMatchers, trimmedLine),
                    lineIdx)
  ELSE c

\* if (SUBSECTION_PATTERN.test(trimmedLine) && !TOC_PATTERN.test(trimmedLine)):
\* SUBSECTION_PATTERN has the g flag, so test searches from its lastIndex
SubsectionMatched(c, match, trimmedLine) ==
  [c EXCEPT !.lastIndex.SUBSECTION_PATTERN = match.lastIndex,
            !.currentSubSection =
              IF match.found /\ ~RegexTest(TOC_PATTERN, trimmedLine)
              THEN FindMatcher(subsectionMatchers, trimmedLine) ELSE @]
SubsectionStage(c, trimmedLine) ==
  IF c.flow # "next" THEN c
  ELSE SubsectionMatched(c, RegexExecG(SUBSECTION_PATTERN, trimmedLine,
                                       c.lastIndex.SUBSECTION_PATTERN), trimmedLine)

\* if (currentSection && markers[currentSection].start && !markers[currentSection].closed);
\* the mutation keeps the heading lines out of the content
ContentStageBelowHeading(c, trimmedLine) ==
  IF c.flow # "next" THEN c
  ELSE IF /\ c.currentSection # "null"
          /\ c.markers[c.currentSection].start # 0
          /\ ~c.markers[c.currentSection].closed
          /\ ~RegexTest(SECTION_PATTERN, trimmedLine)
  THEN [c EXCEPT !.data.content[c.currentSection] = Some(Append(@[1], trimmedLine))]
  ELSE c
ContentStage(c, trimmedLine) ==
  IF c.flow # "next" THEN c
  ELSE IF /\ c.currentSection # "null"
          /\ c.markers[c.currentSection].start # 0
          /\ ~c.markers[c.currentSection].closed
  THEN [c EXCEPT !.data.content[c.currentSection] = Some(Append(@[1], trimmedLine))]
  ELSE c

\* the statements of an iteration for a line that is no page break and not empty;
\* the mutation reads the references of a heading line under the section the
\* heading names
ScanStatementsHeadingFirst(c, line, trimmedLine, lineIdx) ==
  ContentStage(
    SubsectionStage(
      SectionStage(
        HeaderRepeatStage(
          AbstractStage(
            SlugStage(
              HeaderStage(
                InlineCodeStage(
                  CodeBlockStage(
                    SpacingStage(
                      ReferenceStage(
                        [c EXCEPT !.currentSection =
                           IF RegexTest(SECTION_PATTERN, trimmedLine)
                           THEN FindMatcher(sectionMatchers, trimmedLine) ELSE @],
                        trimmedLine),
                      line, trimmedLine, lineIdx),
                    trimmedLine),
                  line, lineIdx),
                line, trimmedLine, lineIdx),
              trimmedLine, lineIdx),
            line, trimmedLine, lineIdx),
          trimmedLine, lineIdx),
        trimmedLine, lineIdx),
      trimmedLine),
    trimmedLine)
ScanStatements(c, line, trimmedLine, lineIdx) ==
  ContentStage(
    SubsectionStage(
      SectionStage(
        HeaderRepeatStage(
          AbstractStage(
            SlugStage(
              HeaderStage(
                InlineCodeStage(
                  CodeBlockStage(
                    SpacingStage(ReferenceStage(c, trimmedLine), line, trimmedLine, lineIdx),
                    trimmedLine),
                  line, lineIdx),
                line, trimmedLine, lineIdx),
              trimmedLine, lineIdx),
            line, trimmedLine, lineIdx),
          trimmedLine, lineIdx),
        trimmedLine, lineIdx),
      trimmedLine),
    trimmedLine)

\* one iteration of for (const line of rawText.split('\n'))
ScanLine(c, line, lineIdx) ==
  IF HasChar(line, "\f") THEN [c EXCEPT !.data.pageCount = @ + 1, !.flow = "continue"]
  ELSE IF Trim(line) = <<>> THEN [c EXCEPT !.flow = "continue"]
  ELSE ScanStatements(c, line, Trim(line), lineIdx)

\* if (currentSection && !markers[currentSection].closed), after the loop
CloseLastSection(c, lineIdx) ==
  IF c.currentSection # "null" /\ ~c.markers[c.currentSection].closed
  THEN [c.markers EXCEPT ![c.currentSection].end = lineIdx,
                         ![c.currentSection].closed = TRUE]
  ELSE c.markers

(***************************************************************************)
(* The TXT parser: the calls of parse.  A process parses its text up to     *)
(* callsLeft times; the pattern objects of the module live as long as the   *)
(* process, so their lastIndex passes from one call to the next.            *)
(***************************************************************************)
TxtIdle ==
  [pc |-> "idle", rawText |-> <<>>, callsLeft |-> 0, lineIdx |-> 0,
   locals |-> Null, results |-> <<>>]

TxtReady(rawText, calls) == [TxtIdle EXCEPT !.pc = "ready", !.rawText = rawText, !.callsLeft = calls]

\* lines 131-227: parse sets up data, the locals and the markers
ParseBegin ==
  /\ txt.pc = "ready"
  /\ txt.callsLeft > 0
  /\ txt' = [txt EXCEPT !.pc = "scan", !.callsLeft = @ - 1, !.lineIdx = 0,
                        !.locals = Some(ParseLocals(lastIndex))]
  /\ UNCHANGED <<cli, lastIndex, val>>

TxtResult(error, document) == [error |-> error, document |-> document]

\* what an iteration that ended as c leaves: the locals of the next one, or
\* the failure the catch throws
AfterScanLine(c, lineIdx) ==
  IF c.flow = "throw"
  THEN [txt EXCEPT !.pc = "ready", !.lineIdx = 0, !.locals = Null,
                   !.results = Append(@, TxtResult(
                       Some([name |-> "TXT_PARSING_FAILED", lineIdx |-> lineIdx]),
                       Null))]
  ELSE [txt EXCEPT !.lineIdx = lineIdx, !.locals = Some([c EXCEPT !.flow = "next"])]

\* one line of the loop; what it throws is caught and thrown again as
\* ValidationError('TXT_PARSING_FAILED', `Error while parsing Line ${lineIdx}: ...`)
ParseScanLine ==
  /\ txt.pc = "scan"
  /\ txt.lineIdx < Len(txt.rawText)
  /\ \E c \in {ScanLine([txt.locals[1] EXCEPT !.lastIndex = lastIndex],
                        txt.rawText[txt.lineIdx + 1], txt.lineIdx + 1)} :
       /\ lastIndex' = c.lastIndex
       /\ txt' = AfterScanLine(c, txt.lineIdx + 1)
  /\ UNCHANGED <<cli, val>>

\* the end of the loop: the last section is closed and the Document returned
ParseReturn ==
  /\ txt.pc = "scan"
  /\ txt.lineIdx = Len(txt.rawText)
  /\ LET c == txt.locals[1]
         document == [docKind |-> c.docKind, body |-> txt.rawText, type |-> "txt",
                      data |-> c.data, markers |-> CloseLastSection(c, txt.lineIdx)]
     IN txt' = [txt EXCEPT !.pc = "ready", !.lineIdx = 0, !.locals = Null,
                           !.results = Append(@, TxtResult(Null, Some(document)))]
  /\ UNCHANGED <<cli, lastIndex, val>>

NextTxt == ParseBegin \/ ParseScanLine \/ ParseReturn

(***************************************************************************)
(* The validators of lib/modules/metadata.mjs and lib/modules/downref.mjs.  *)
(* A finding is its class, its name and its message; the ref option of a    *)
(* finding is left out.  The lookups of lib/helpers/remote.mjs and          *)
(* lib/remote/downref.mjs are answered by `remote` and `registry`, which    *)
(* stay the same for all the calls of a process.                            *)
(***************************************************************************)
MODES == {"NORMAL", "FORGIVE_CHECKLIST", "SUBMISSION"}

ValidationError(name, message) == [class |-> "ValidationError", name |-> name, message |-> message]
ValidationWarning(name, message) == [class |-> "ValidationWarning", name |-> name, message |-> message]
ValidationComment(name, message) == [class |-> "ValidationComment", name |-> name, message |-> message]

\* Array.prototype.join
RECURSIVE Join(_, _)
Join(list, sep) ==
  IF list = <<>> THEN <<>>
  ELSE IF Len(list) = 1 THEN list[1]
  ELSE list[1] \o sep \o Join(Tail(list), sep)

\* the concatenation of the lists of a list
RECURSIVE Flatten(_)
Flatten(lists) == IF lists = <<>> THEN <<>> ELSE Head(lists) \o Flatten(Tail(lists))

\* ref.match(/\d+/): the first run of digits, or null
FirstDigits(ref) ==
  LET m == RegexExecG(Plus(Chr(Digit)), ref, 0)
  IN IF m.found THEN Some(SubSeq(ref, m.index + 1, m.lastIndex)) ELSE Null

\* .replace(/^\[|\]$/g, '').replace(/-\d{2}$/, '')
StripBracketsAndVersion(ref) ==
  LET a == IF ref # <<>> /\ Head(ref) = "[" THEN Tail(ref) ELSE ref
      b == IF a # <<>> /\ a[Len(a)] = "]" THEN SubSeq(a, 1, Len(a) - 1) ELSE a
      n == Len(b)
  IN IF n >= 3 /\ b[n - 2] = "-" /\ b[n - 1] \in Digit /\ b[n] \in Digit
     THEN SubSeq(b, 1, n - 3) ELSE b

normalizeDraftReferences(references) ==
  SelectSeq([k \in 1..Len(references) |-> StripBracketsAndVersion(references[k])],
            LAMBDA ref : Includes(ToLowerCase(ref), <<"d","r","a","f","t">>))

NormalizeXmlReference(ref) ==
  IF RegexTest(Cat(<<Bol, LitI(<<"R","F","C">>), Plus(Chr(Digit)), Eol>>), ref)
  THEN <<<<"R","F","C"," ">> \o FirstDigits(ref)[1]>>
  ELSE IF RegexTest(LitI(<<"d","r","a","f","t">>), ref)
  THEN <<StripBracketsAndVersion(Trim(ref))>>
  ELSE <<>>

normalizeXmlReferences(references) ==
  Flatten([k \in 1..Len(references) |-> NormalizeXmlReference(references[k])])

\* what a property of the XML tree holds: nothing, one object (the element
\* occurs once) or an array (it occurs more than once, or a test built one)
Undefined == [kind |-> "undefined", items |-> <<>>]
Object(x) == [kind |-> "object", items |-> <<x>>]
Array(xs) == [kind |-> "array", items |-> xs]

SectionAnchors(section) ==
  IF section.reference.kind = "array"
  THEN Flatten([k \in 1..Len(section.reference.items) |->
                  LET anchor == section.reference.items[k].anchor
                  IN IF anchor # Null /\ anchor[1] # <<>> THEN anchor ELSE <<>>])
  ELSE <<>>

\* extractDefinedReferences(doc.data.rfc.back.references.references): forEach is
\* a method of arrays only, so anything else throws a TypeError
extractDefinedReferences(referencesSections) ==
  IF referencesSections.kind # "array"
  THEN [thrown |-> "TypeError", value |-> <<>>]
  ELSE [thrown |-> "none", value |-> Flatten([k \in 1..Len(referencesSections.items) |->
                                             SectionAnchors(referencesSections.items[k])])]

\* config/rfc-status-hierarchy.mjs: the weight of a status of the hierarchy, or null
getStatusWeight(status) == IF status = <<"P","r","o","p","o","s","e","d"," ","S","t","a","n","d","a","r","d">> THEN Some(1) ELSE Null

\* const rfcInfo = await fetchRemoteRfcInfo(rfcNum)
fetchRemoteRfcInfo(rfcNum) == IF rfcNum \in DOMAIN val.remote THEN val.remote[rfcNum] ELSE Null

\* the Documents the validators read: of a TXT Document the reference lists of
\* data.extractedElements, of an XML Document the <rfc> element; a Document
\* holds no property of the other kind (null)
TxtDoc(referenceSectionRfc, referenceSectionDraftReferences) ==
  [type |-> "txt",
   data |-> [extractedElements |->
               Some([referenceSectionRfc |-> referenceSectionRfc,
                     referenceSectionDraftReferences |-> referenceSectionDraftReferences]),
             rfc |-> Null]]
\* an <rfc> without <back>, or a <back> without <references>, is a references
\* property that is undefined: reading it throws the same TypeError
XmlDoc(attr, abstract, references) ==
  [type |-> "xml",
   data |-> [extractedElements |-> Null,
             rfc |-> Some([attr |-> attr,
                           front |-> [abstract |-> abstract],
                           back |-> [references |-> [references |-> references]]])]]

Returned(value) == [thrown |-> "none", value |-> value]
Thrown(error) == [thrown |-> error, value |-> <<>>]
Values(list) == [k \in 1..Len(list) |-> list[k].value]

\* lines 392-394 and 440-444: the references validateNormativeReferences looks up
normativeReferences(doc) ==
  IF doc.type = "txt"
  THEN IF doc.data.extractedElements = Null THEN Thrown("TypeError")
       ELSE Returned(Values(SelectSeq(doc.data.extractedElements[1].referenceSectionRfc,
              LAMBDA el : /\ el.subsection = "normative_references"
                          /\ RegexTest(Cat(<<Bol, Plus(Chr(Digit)), Eol>>), el.value))))
  ELSE LET definedReferences == extractDefinedReferences(doc.data.rfc[1].back.references.references)
           rfcs == SelectSeq(normalizeXmlReferences(definedReferences.value),
                             LAMBDA ref : StartsWith(ref, <<"R","F","C">>))
       IN IF definedReferences.thrown # "none" THEN definedReferences
          ELSE IF \E k \in 1..Len(rfcs) : FirstDigits(rfcs[k]) = Null THEN Thrown("TypeError")
          ELSE Returned([k \in 1..Len(rfcs) |-> FirstDigits(rfcs[k])[1]])

\* lines 525-527 and 594-596: the references of one subsection, of any Document
SubsectionReferences(doc, subsection) ==
  IF doc.data.extractedElements = Null THEN Thrown("TypeError")
  ELSE Returned(Values(SelectSeq(doc.data.extractedElements[1].referenceSectionRfc,
                                 LAMBDA el : el.subsection = subsection)))

HasStatus(rfcInfo) == rfcInfo # Null /\ rfcInfo[1].status # Null /\ rfcInfo[1].status[1] # <<>>
ObsoletedByList(rfcInfo) == Join(rfcInfo[1].obsoleted_by, <<","," ">>)
\* if (mode === MODES.NORMAL) ... else if (mode === MODES.FORGIVE_CHECKLIST) ...
ObsoleteFinding(rfcInfo, mode, name, message) ==
  IF Len(rfcInfo[1].obsoleted_by) > 0
  THEN IF mode = "NORMAL" THEN <<ValidationError(name, message)>>
       ELSE IF mode = "FORGIVE_CHECKLIST" THEN <<ValidationWarning(name, message)>>
       ELSE <<>>
  ELSE <<>>

\* the iteration without the continue of its first branch
NormativeIterationFallsThrough(rfcNum, rfcInfo, mode) ==
  (IF ~HasStatus(rfcInfo)
   THEN <<ValidationComment("UNDEFINED_STATUS",
            <<"R","F","C"," ">> \o rfcNum \o <<" ","d","o","e","s"," ","n","o","t"," ","h","a","v","e"," ","a"," ","d","e","f","i","n","e","d"," ","s","t","a","t","u","s"," ","o","r"," ","c","o","u","l","d"," ","n","o","t"," ","b","e"," ","f","e","t","c","h","e","d",".">>)>>
   ELSE <<>>)
  \o (IF rfcInfo # Null
      THEN ObsoleteFinding(rfcInfo, mode, "OBSOLETE_DOCUMENT",
             <<"T","h","e"," ","r","e","f","e","r","e","n","c","e","d"," ","d","o","c","u","m","e","n","t"," ","R","F","C"," ">> \o rfcNum
               \o <<" ","i","s"," ","o","b","s","o","l","e","t","e"," ","a","n","d"," ","h","a","s"," ","b","e","e","n"," ","r","e","p","l","a","c","e","d"," ","b","y",":"," ">> \o ObsoletedByList(rfcInfo) \o <<".">>)
      ELSE <<>>)

\* lines 397-435 and 447-485: the findings one iteration of the loop of
\* validateNormativeReferences pushes for the answer rfcInfo
NormativeIteration(rfcNum, rfcInfo, mode) ==
  IF ~HasStatus(rfcInfo)
  THEN <<ValidationComment("UNDEFINED_STATUS",
           <<"R","F","C"," ">> \o rfcNum \o <<" ","d","o","e","s"," ","n","o","t"," ","h","a","v","e"," ","a"," ","d","e","f","i","n","e","d"," ","s","t","a","t","u","s"," ","o","r"," ","c","o","u","l","d"," ","n","o","t"," ","b","e"," ","f","e","t","c","h","e","d",".">>)>>
  ELSE (IF getStatusWeight(rfcInfo[1].status[1]) = Null
        THEN <<ValidationComment("UNKNOWN_STATUS",
                 <<"R","F","C"," ">> \o rfcNum \o <<" ","h","a","s"," ","a","n"," ","u","n","r","e","c","o","g","n","i","z","e","d"," ","s","t","a","t","u","s",":"," ","\"">>
                   \o rfcInfo[1].status[1] \o <<"\"",".">>)>>
        ELSE <<>>)
       \o ObsoleteFinding(rfcInfo, mode, "OBSOLETE_DOCUMENT",
            <<"T","h","e"," ","r","e","f","e","r","e","n","c","e","d"," ","d","o","c","u","m","e","n","t"," ","R","F","C"," ">> \o rfcNum
              \o <<" ","i","s"," ","o","b","s","o","l","e","t","e"," ","a","n","d"," ","h","a","s"," ","b","e","e","n"," ","r","e","p","l","a","c","e","d"," ","b","y",":"," ">> \o ObsoletedByList(rfcInfo) \o <<".">>)

\* lines 530-558 and 599-627: the same for the two other validators
UnclassifiedIteration(ref, rfcInfo, mode) ==
  IF ~HasStatus(rfcInfo)
  THEN <<ValidationComment("UNDEFINED_STATUS",
           <<"T","h","e"," ","u","n","c","l","a","s","s","i","f","i","e","d"," ","r","e","f","e","r","e","n","c","e"," ">> \o ref
             \o <<" ","d","o","e","s"," ","n","o","t"," ","h","a","v","e"," ","a"," ","d","e","f","i","n","e","d"," ","s","t","a","t","u","s"," ","o","r"," ","c","o","u","l","d"," ","n","o","t"," ","b","e"," ","f","e","t","c","h","e","d",".">>)>>
  ELSE ObsoleteFinding(rfcInfo, mode, "OBSOLETE_UNCLASSIFIED_REFERENCE",
         <<"T","h","e"," ","u","n","c","l","a","s","s","i","f","i","e","d"," ","r","e","f","e","r","e","n","c","e"," ">> \o ref
           \o <<" ","i","s"," ","o","b","s","o","l","e","t","e"," ","a","n","d"," ","h","a","s"," ","b","e","e","n"," ","r","e","p","l","a","c","e","d"," ","b","y",":"," ">> \o ObsoletedByList(rfcInfo) \o <<".">>)

InformativeIteration(ref, rfcInfo, mode) ==
  IF ~HasStatus(rfcInfo)
  THEN <<ValidationComment("UNDEFINED_STATUS",
           <<"T","h","e"," ","i","n","f","o","r","m","a","t","i","v","e"," ","r","e","f","e","r","e","n","c","e"," ","R","F","C"," ">> \o ref
             \o <<" ","d","o","e","s"," ","n","o","t"," ","h","a","v","e"," ","a"," ","d","e","f","i","n","e","d"," ","s","t","a","t","u","s"," ","o","r"," ","c","o","u","l","d"," ","n","o","t"," ","b","e"," ","f","e","t","c","h","e","d",".">>)>>
  ELSE ObsoleteFinding(rfcInfo, mode, "OBSOLETE_INFORMATIVE_REFERENCE",
         <<"T","h","e"," ","i","n","f","o","r","m","a","t","i","v","e"," ","r","e","f","e","r","e","n","c","e"," ","R","F","C"," ">> \o ref
           \o <<" ","i","s"," ","o","b","s","o","l","e","t","e"," ","a","n","d"," ","h","a","s"," ","b","e","e","n"," ","r","e","p","l","a","c","e","d"," ","b","y",":"," ">> \o ObsoletedByList(rfcInfo) \o <<".">>)

(***************************************************************************)
(* The calls of the validators.  A process holds one Document and calls     *)
(* validators on it; every await of a lookup is a step.  `calls` keeps what *)
(* each finished call returned or threw, `lookups` what each iteration of   *)
(* the running call looked up and pushed.                                   *)
(***************************************************************************)
ValIdle ==
  [pc |-> "idle", doc |-> Null, remote |-> <<>>, registry |-> {}, callsLeft |-> 0,
   fn |-> "none", mode |-> "NORMAL", offline |-> FALSE, phase |-> "none",
   refs |-> <<>>, index |-> 0, inflight |-> {}, result |-> <<>>, lookups |-> <<>>,
   calls |-> <<>>,
   clock |-> [today |-> [year |-> 0, month |-> 0, day |-> 0], now |-> 0]]

ValReady(doc, remote, registry, calls) ==
  [ValIdle EXCEPT !.pc = "ready", !.doc = doc, !.remote = remote, !.registry = registry,
                  !.callsLeft = calls]

BeginCall(v, fn, mode, offline) ==
  [v EXCEPT !.callsLeft = @ - 1, !.fn = fn, !.mode = mode, !.offline = offline]

\* the call returns its result, or throws; the mutation keeps one finding list
\* for all the calls instead of the const result = [] of each call
EndCallKeepingTheList(v, thrown) ==
  [v EXCEPT !.pc = "ready", !.fn = "none", !.phase = "none", !.refs = <<>>, !.index = 0,
            !.lookups = <<>>,
            !.calls = Append(@, [fn |-> v.fn, mode |-> v.mode, offline |-> v.offline,
                                 thrown |-> thrown, refs |-> v.refs,
                                 result |-> IF thrown = "none" THEN v.result ELSE <<>>,
                                 lookups |-> v.lookups])]
EndCall(v, thrown) ==
  [v EXCEPT !.pc = "ready", !.fn = "none", !.phase = "none", !.refs = <<>>, !.index = 0,
            !.result = <<>>, !.lookups = <<>>,
            !.calls = Append(@, [fn |-> v.fn, mode |-> v.mode, offline |-> v.offline,
                                 thrown |-> thrown, refs |-> v.refs,
                                 result |-> IF thrown = "none" THEN v.result ELSE <<>>,
                                 lookups |-> v.lookups])]

ReferenceValidators ==
  {"validateNormativeReferences", "validateInformativeReferences",
   "validateUnclassifiedReferences"}

ReferencesToLookUp(fn, doc) ==
  CASE fn = "validateNormativeReferences" -> normativeReferences(doc)
    [] fn = "validateInformativeReferences" -> SubsectionReferences(doc, "informative_references")
    [] fn = "validateUnclassifiedReferences" -> SubsectionReferences(doc, "unclassified_references")

\* the call of a reference validator up to its first lookup
CallReferenceValidator ==
  /\ val.pc = "ready"
  /\ val.callsLeft > 0
  /\ \E fn \in ReferenceValidators, mode \in MODES :
       LET v == BeginCall(val, fn, mode, FALSE)
           refs == ReferencesToLookUp(fn, val.doc)
       IN val' = IF mode = "SUBMISSION" THEN EndCall(v, "none")
                 ELSE IF refs.thrown # "none" THEN EndCall(v, refs.thrown)
                 ELSE [v EXCEPT !.pc = "loop", !.refs = refs.value]
  /\ UNCHANGED <<cli, lastIndex, txt>>

\* one iteration of the loop: the lookup and what follows its answer
ReferenceLookup ==
  /\ val.pc = "loop"
  /\ val.fn \in ReferenceValidators
  /\ Len(val.lookups) < Len(val.refs)
  /\ LET ref == val.refs[Len(val.lookups) + 1]
         rfcInfo == fetchRemoteRfcInfo(ref)
         pushed == CASE val.fn = "validateNormativeReferences" ->
                          NormativeIteration(ref, rfcInfo, val.mode)
                     [] val.fn = "validateInformativeReferences" ->
                          InformativeIteration(ref, rfcInfo, val.mode)
                     [] val.fn = "validateUnclassifiedReferences" ->
                          UnclassifiedIteration(ref, rfcInfo, val.mode)
     IN val' = [val EXCEPT !.result = @ \o pushed,
                           !.lookups = Append(@, [ref |-> ref, rfcInfo |-> rfcInfo,
                                                  pushed |-> pushed])]
  /\ UNCHANGED <<cli, lastIndex, txt>>

\* the loop is over: return result
ReferenceValidatorReturn ==
  /\ val.pc = "loop"
  /\ val.fn \in ReferenceValidators
  /\ Len(val.lookups) = Len(val.refs)
  /\ val' = EndCall(val, "none")
  /\ UNCHANGED <<cli, lastIndex, txt>>

NextReferences == CallReferenceValidator \/ ReferenceLookup \/ ReferenceValidatorReturn

\* lines 267-269 and 292-294: the labels validateDownrefs asks the registry about
downrefReferences(doc) ==
  IF doc.type = "txt"
  THEN IF doc.data.extractedElements = Null THEN Thrown("TypeError")
       ELSE LET ee == doc.data.extractedElements[1]
                rfcs == [k \in 1..Len(ee.referenceSectionRfc) |->
                           <<"R","F","C"," ">> \o ee.referenceSectionRfc[k].value]
                drafts == normalizeDraftReferences(Values(ee.referenceSectionDraftReferences))
            IN Returned(rfcs \o drafts)
  ELSE LET definedReferences == extractDefinedReferences(doc.data.rfc[1].back.references.references)
       IN IF definedReferences.thrown # "none" THEN definedReferences
          ELSE Returned(normalizeXmlReferences(definedReferences.value))

\* remote/downref.mjs: the labels of the list the registry holds, each once
RECURSIVE Distinct(_)
Distinct(list) ==
  IF list = <<>> THEN <<>>
  ELSE LET rest == Distinct(SubSeq(list, 1, Len(list) - 1))
       IN IF InSeq(rest, list[Len(list)]) THEN rest ELSE Append(rest, list[Len(list)])
checkReferencesInDownrefs(references) ==
  Distinct(SelectSeq(references, LAMBDA ref : ref \in val.registry))

\* lines 272-287 and 298-313: downrefMatches.forEach
DownrefFinding(match, mode) ==
  LET message == <<"D","r","a","f","t"," ">> \o match \o <<" ","i","s"," ","l","i","s","t","e","d"," ","i","n"," ","t","h","e"," ","D","o","w","n","r","e","f"," ","R","e","g","i","s","t","r","y",".">>
  IN IF mode = "NORMAL" THEN <<ValidationError("DOWNREF_DRAFT", message)>>
     ELSE IF mode = "FORGIVE_CHECKLIST" THEN <<ValidationWarning("DOWNREF_DRAFT", message)>>
     ELSE <<>>
DownrefFindings(downrefMatches, mode) ==
  Flatten([k \in 1..Len(downrefMatches) |-> DownrefFinding(downrefMatches[k], mode)])

\* the call of validateDownrefs up to its query of the registry
CallValidateDownrefs ==
  /\ val.pc = "ready"
  /\ val.callsLeft > 0
  /\ \E mode \in MODES :
       LET v == BeginCall(val, "validateDownrefs", mode, FALSE)
           refs == downrefReferences(val.doc)
       IN val' = IF mode = "SUBMISSION" THEN EndCall(v, "none")
                 ELSE IF refs.thrown # "none" THEN EndCall(v, refs.thrown)
                 ELSE [v EXCEPT !.pc = "query", !.refs = refs.value]
  /\ UNCHANGED <<cli, lastIndex, txt>>

\* the registry answers: a finding for each match, and the call returns
DownrefsAnswer ==
  /\ val.pc = "query"
  /\ LET downrefMatches == checkReferencesInDownrefs(val.refs)
         pushed == DownrefFindings(downrefMatches, val.mode)
     IN val' = EndCall([val EXCEPT !.result = @ \o pushed,
                                   !.lookups = <<[ref |-> val.refs, rfcInfo |-> downrefMatches,
                                                  pushed |-> pushed]>>],
                       "none")
  /\ UNCHANGED <<cli, lastIndex, txt>>

NextDownrefs == CallValidateDownrefs \/ DownrefsAnswer

(***************************************************************************)
(* validateObsoleteUpdateRef.  The three patterns are module constants;     *)
(* only RFC_NUM_RE is ever run through test, so only its lastIndex moves.   *)
(***************************************************************************)
RfcPrefix == Cat(<<Opt(Chr({"["})), LitI(<<"r","f","c">>), Opt(Chr(BothCases("s"))), Opt(Chr({" "}))>>)
RfcListItem ==
  Cat(<<Opt(RfcPrefix), Plus(Chr(Digit)), Opt(Chr({"]"})),
        Opt(Alt(<<Lit(<<","," ">>), LitI(<<" ","a","n","d"," ">>)>>))>>)
OBSOLETES_RE ==
  Cat(<<Alt(<<LitI(<<"o","b","s","o","l","e","t","e","s">>), LitI(<<"r","e","p","l","a","c","e","s">>)>>), Chr({" "}), Plus(RfcListItem)>>)
UPDATES_RE == Cat(<<LitI(<<"u","p","d","a","t","e","s">>), Chr({" "}), Plus(RfcListItem)>>)
RFC_NUM_RE == Plus(Chr(Digit))

\* get(doc, 'data.rfc._attr.<name>', '').split(',').map(r => r.trim()).filter(r => r)
AttrRefs(attr) ==
  LET parts == Split(IF attr = Null THEN <<>> ELSE attr[1], ",")
  IN SelectSeq([k \in 1..Len(parts) |-> Trim(parts[k])], LAMBDA r : r # <<>>)

\* helpers/traversal.mjs with the callback of lines 124-132 (135-143): every
\* string of the abstract, its newlines made spaces, is searched for the
\* mentions of re, and each mention for its numbers.  matchAll searches with a
\* copy of the pattern that starts at the lastIndex of the pattern.
MentionNumbers(mention, li) ==
  LET numMatches == AllMatches(RFC_NUM_RE, mention, li)
  IN [k \in 1..Len(numMatches) |-> SubSeq(mention, numMatches[k].index + 1, numMatches[k].end)]
ValueMentions(re, value, li) ==
  LET text == [i \in 1..Len(value) |-> IF value[i] = "\n" THEN " " ELSE value[i]]
      matches == AllMatches(re, text, 0)
  IN Flatten([k \in 1..Len(matches) |->
                MentionNumbers(SubSeq(text, matches[k].index + 1, matches[k].end), li)])
AbstractMentions(re, abstract, li) ==
  Flatten([k \in 1..Len(abstract) |-> ValueMentions(re, abstract[k], li)])

\* lodash difference; the mutation keeps every value of the array
differenceOfNothing(array, values) == array
difference(array, values) == SelectSeq(array, LAMBDA x : ~InSeq(values, x))

\* lines 145-187: what <rfc> states and the abstract does not mention, and back
MentionWarning(name, head, ref, tail) == ValidationWarning(name, head \o ref \o tail)
MentionWarnings(obsoletesRef, updatesRef, obsoletesAbs, updatesAbs) ==
  LET obsoletesNotInAbs == difference(obsoletesRef, obsoletesAbs)
      obsoletesNotInRef == difference(obsoletesAbs, obsoletesRef)
      updatesNotInAbs == difference(updatesRef, updatesAbs)
      updatesNotInRef == difference(updatesAbs, updatesRef)
  IN [k \in 1..Len(obsoletesNotInAbs) |->
        MentionWarning("OBSOLETES_NOT_IN_ABSTRACT", <<"T","h","e"," ","d","o","c","u","m","e","n","t"," ","s","t","a","t","e","s"," ","t","h","a","t"," ","i","t"," ","o","b","s","o","l","e","t","e","s"," ","R","F","C"," ">>,
          obsoletesNotInAbs[k], <<" ","b","u","t"," ","d","o","e","s","n","'","t"," ","e","x","p","l","i","c","i","t","e","l","y"," ","m","e","n","t","i","o","n"," ","i","t"," ","i","n"," ","t","h","e"," ","<","a","b","s","t","r","a","c","t",">"," ","s","e","c","t","i","o","n",".">>)]
     \o [k \in 1..Len(obsoletesNotInRef) |->
        MentionWarning("OBSOLETES_NOT_IN_RFC", <<"T","h","e"," ","d","o","c","u","m","e","n","t"," ","a","b","s","t","r","a","c","t"," ","s","t","a","t","e","s"," ","t","h","a","t"," ","i","t"," ","o","b","s","o","l","e","t","e","s"," ","R","F","C"," ">>,
          obsoletesNotInRef[k], <<" ","b","u","t"," ","i","t","'","s"," ","n","o","t"," ","m","e","n","t","i","o","n","n","e","d"," ","i","n"," ","t","h","e"," ","o","b","s","o","l","e","t","e","s"," ","<","r","f","c",">"," ","f","i","e","l","d",".">>)]
     \o [k \in 1..Len(updatesNotInAbs) |->
        MentionWarning("UPDATES_NOT_IN_ABSTRACT", <<"T","h","e"," ","d","o","c","u","m","e","n","t"," ","s","t","a","t","e","s"," ","t","h","a","t"," ","i","t"," ","u","p","d","a","t","e","s"," ","R","F","C"," ">>,
          updatesNotInAbs[k], <<" ","b","u","t"," ","d","o","e","s","n","'","t"," ","e","x","p","l","i","c","i","t","e","l","y"," ","m","e","n","t","i","o","n"," ","i","t"," ","i","n"," ","t","h","e"," ","<","a","b","s","t","r","a","c","t",">"," ","s","e","c","t","i","o","n",".">>)]
     \o [k \in 1..Len(updatesNotInRef) |->
        MentionWarning("UPDATES_NOT_IN_RFC", <<"T","h","e"," ","d","o","c","u","m","e","n","t"," ","a","b","s","t","r","a","c","t"," ","s","t","a","t","e","s"," ","t","h","a","t"," ","i","t"," ","u","p","d","a","t","e","s"," ","R","F","C"," ">>,
          updatesNotInRef[k], <<" ","b","u","t"," ","i","t","'","s"," ","n","o","t"," ","m","e","n","t","i","o","n","n","e","d"," ","i","n"," ","t","h","e"," ","u","p","d","a","t","e","s"," ","<","r","f","c",">"," ","f","i","e","l","d",".">>)]

\* lines 195-207: what the answer about an obsoleted RFC pushes
ObsoletesIteration(ref, rfcInfo) ==
  IF rfcInfo = Null
  THEN <<ValidationWarning("OBSOLETES_RFC_NOT_FOUND",
           <<"T","h","e"," ","<","r","f","c",">"," ","f","i","e","l","d"," ","s","t","a","t","e","s"," ","t","h","a","t"," ","i","t"," ","o","b","s","o","l","e","t","e","s"," ","R","F","C"," ">> \o ref
             \o <<" ","b","u","t"," ","n","o"," ","m","a","t","c","h","i","n","g"," ","R","F","C"," ","c","o","u","l","d"," ","b","e"," ","f","o","u","n","d"," ","o","n"," ","r","f","c","-","e","d","i","t","o","r",".","o","r","g",".">>)>>
  ELSE IF Len(rfcInfo[1].obsoleted_by) > 0
  THEN <<ValidationWarning("OBSOLETES_OSOLETED_RFC",
           <<"T","h","e"," ","<","r","f","c",">"," ","f","i","e","l","d"," ","s","t","a","t","e","s"," ","t","h","a","t"," ","i","t"," ","o","b","s","o","l","e","t","e","s"," ","R","F","C"," ">> \o ref
             \o <<" ","b","u","t"," ","i","t","'","s"," ","a","l","r","e","a","d","y"," ","o","b","s","o","l","e","t","e","d"," ","b","y"," ","R","F","C"," ">> \o ObsoletedByList(rfcInfo) \o <<".">>)>>
  ELSE <<>>

\* lines 215-232: what the answer about an updated RFC pushes
UpdatesIteration(ref, rfcInfo) ==
  IF rfcInfo = Null
  THEN <<ValidationWarning("UPDATES_RFC_NOT_FOUND",
           <<"T","h","e"," ","<","r","f","c",">"," ","f","i","e","l","d"," ","s","t","a","t","e","s"," ","t","h","a","t"," ","i","t"," ","u","p","d","a","t","e","s"," ","R","F","C"," ">> \o ref
             \o <<" ","b","u","t"," ","n","o"," ","m","a","t","c","h","i","n","g"," ","R","F","C"," ","c","o","u","l","d"," ","b","e"," ","f","o","u","n","d"," ","o","n"," ","r","f","c","-","e","d","i","t","o","r",".","o","r","g",".">>)>>
  ELSE IF Len(rfcInfo[1].obsoleted_by) > 0
  THEN <<ValidationWarning("UPDATES_OSOLETED_RFC",
           <<"T","h","e"," ","<","r","f","c",">"," ","f","i","e","l","d"," ","s","t","a","t","e","s"," ","t","h","a","t"," ","i","t"," ","u","p","d","a","t","e","s"," ","R","F","C"," ">> \o ref
             \o <<" ","b","u","t"," ","i","t","'","s"," ","a","l","r","e","a","d","y"," ","o","b","s","o","l","e","t","e","d"," ","b","y"," ","R","F","C"," ">> \o ObsoletedByList(rfcInfo) \o <<".">>)>>
  ELSE IF Len(rfcInfo[1].updated_by) > 0
  THEN <<ValidationWarning("UPDATES_UPDATED_RFC",
           <<"T","h","e"," ","<","r","f","c",">"," ","f","i","e","l","d"," ","s","t","a","t","e","s"," ","t","h","a","t"," ","i","t"," ","u","p","d","a","t","e","s"," ","R","F","C"," ">> \o ref
             \o <<" ","b","u","t"," ","i","t","'","s"," ","a","l","r","e","a","d","y"," ","u","p","d","a","t","e","d"," ","b","y"," ","R","F","C"," ">>
             \o Join(rfcInfo[1].updated_by, <<","," ">>) \o <<".">>)>>
  ELSE <<>>

\* lines 192-193 and 212-213: the two loops run on to the next entry that
\* RFC_NUM_RE.test accepts; refs is obsoletesRef followed by updatesRef
RECURSIVE NextTested(_, _, _)
NextTested(refs, k, li) ==
  IF k > Len(refs) THEN [index |-> k, lastIndex |-> li]
  ELSE LET m == RegexExecG(RFC_NUM_RE, refs[k].ref, li)
       IN IF m.found THEN [index |-> k, lastIndex |-> m.lastIndex]
          ELSE NextTested(refs, k + 1, m.lastIndex)

\* lines 120-121: the entries of the two attributes, obsoletesRef first
ObsoleteUpdateRefs(doc) ==
  LET attr == doc.data.rfc[1].attr
      obsoletesRef == AttrRefs(attr.obsoletes)
      updatesRef == AttrRefs(attr.updates)
  IN [k \in 1..Len(obsoletesRef) |-> [list |-> "obsoletes", ref |-> obsoletesRef[k]]]
     \o [k \in 1..Len(updatesRef) |-> [list |-> "updates", ref |-> updatesRef[k]]]

\* the loops from entry k on, up to the next await of fetchRemoteRfcInfo or,
\* when no entry is left, to the return
RunToLookup(v, k) ==
  LET t == NextTested(v.refs, k, lastIndex.RFC_NUM_RE)
  IN /\ lastIndex' = [lastIndex EXCEPT !.RFC_NUM_RE = t.lastIndex]
     /\ val' = IF t.index > Len(v.refs) THEN EndCall(v, "none")
               ELSE [v EXCEPT !.pc = "fetch", !.index = t.index]

\* lines 107-193: the call of validateObsoleteUpdateRef up to its first lookup
CallValidateObsoleteUpdateRef ==
  /\ val.pc = "ready"
  /\ val.callsLeft > 0
  /\ \E mode \in MODES, offline \in BOOLEAN :
       LET v == BeginCall(val, "validateObsoleteUpdateRef", mode, offline)
       IN IF mode = "SUBMISSION" \/ val.doc.type = "txt"
          THEN val' = EndCall(v, "none") /\ UNCHANGED lastIndex
          ELSE LET rfc == val.doc.data.rfc[1]
                   refs == ObsoleteUpdateRefs(val.doc)
                   obsoletesRef == AttrRefs(rfc.attr.obsoletes)
                   updatesRef == AttrRefs(rfc.attr.updates)
                   obsoletesAbs == AbstractMentions(OBSOLETES_RE, rfc.front.abstract,
                                                    lastIndex.RFC_NUM_RE)
                   updatesAbs == AbstractMentions(UPDATES_RE, rfc.front.abstract,
                                                  lastIndex.RFC_NUM_RE)
                   w == [v EXCEPT !.refs = refs,
                                  !.result = MentionWarnings(obsoletesRef, updatesRef,
                                                             obsoletesAbs, updatesAbs)]
               IN IF offline THEN val' = EndCall(w, "none") /\ UNCHANGED lastIndex
                  ELSE RunToLookup(w, 1)
  /\ UNCHANGED <<cli, txt>>

\* lines 194-207 and 214-232: the answer of a lookup and what the loops do next
ObsoleteUpdateAnswer ==
  /\ val.pc = "fetch"
  /\ LET entry == val.refs[val.index]
         rfcInfo == fetchRemoteRfcInfo(entry.ref)
         pushed == IF entry.list = "obsoletes" THEN ObsoletesIteration(entry.ref, rfcInfo)
                   ELSE UpdatesIteration(entry.ref, rfcInfo)
     IN RunToLookup([val EXCEPT !.result = @ \o pushed,
                                !.lookups = Append(@, [ref |-> entry.ref, rfcInfo |-> rfcInfo,
                                                       pushed |-> pushed])],
                    val.index + 1)
  /\ UNCHANGED <<cli, txt>>

NextMeta == CallValidateObsoleteUpdateRef \/ ObsoleteUpdateAnswer

(***************************************************************************)
(* vlidateDraftReferences.                                                  *)
(***************************************************************************)
\* const draftInfo = await fetchRemoteDocInfoJson(drafts[i]): {state?} or nothing
fetchRemoteDocInfoJson(draft) == IF draft \in DOMAIN val.remote THEN val.remote[draft] ELSE Null

\* lines 659-660 and 684-687: the drafts vlidateDraftReferences looks up
draftReferences(doc) ==
  IF doc.type = "txt"
  THEN IF doc.data.extractedElements = Null THEN Thrown("TypeError")
       ELSE Returned(normalizeDraftReferences(
                       Values(doc.data.extractedElements[1].referenceSectionDraftReferences)))
  ELSE LET definedReferences == extractDefinedReferences(doc.data.rfc[1].back.references.references)
       IN IF definedReferences.thrown # "none" THEN definedReferences
          ELSE Returned(SelectSeq(normalizeXmlReferences(definedReferences.value),
                                  LAMBDA el : StartsWith(el, <<"d","r","a","f","t","-">>)))

HasState(draftInfo) == draftInfo # Null /\ draftInfo[1].state # Null /\ draftInfo[1].state[1] # <<>>

\* lines 665-678 and 691-704: what an iteration pushes after the lookup; the
\* mutation leaves out the branch of an answer that is nothing or has no state
DraftIterationNoStateCheck(draft, draftInfo) ==
  IF draftInfo # Null /\ draftInfo[1].state # Null
     /\ ToLowerCase(draftInfo[1].state[1]) = <<"r","f","c">>
  THEN <<ValidationWarning("INVALID_STATE_FOR_DRAFT",
           <<"T","h","e"," ","d","r","a","f","t"," ","r","e","f","e","r","e","n","c","e"," ">> \o draft
             \o <<" ","i","s"," ","a","l","r","e","a","d","y"," ","p","u","b","l","i","s","h","e","d"," ","a","s"," ","a","n"," ","R","F","C"," ","a","n","d"," ","s","h","o","u","l","d"," ","n","o","t"," ","b","e"," ","r","e","f","e","r","e","n","c","e","d"," ","a","s"," ","a"," ","d","r","a","f","t",".">>)>>
  ELSE <<>>
DraftIteration(draft, draftInfo) ==
  IF ~HasState(draftInfo)
  THEN <<ValidationWarning("UNDEFINED_STATE",
           <<"T","h","e"," ","d","r","a","f","t"," ","r","e","f","e","r","e","n","c","e"," ">> \o draft
             \o <<" ","d","o","e","s"," ","n","o","t"," ","h","a","v","e"," ","a"," ","d","e","f","i","n","e","d"," ","s","t","a","t","e"," ","o","r"," ","c","o","u","l","d"," ","n","o","t"," ","b","e"," ","f","e","t","c","h","e","d",".">>)>>
  ELSE IF ToLowerCase(draftInfo[1].state[1]) = <<"r","f","c">>
  THEN <<ValidationWarning("INVALID_STATE_FOR_DRAFT",
           <<"T","h","e"," ","d","r","a","f","t"," ","r","e","f","e","r","e","n","c","e"," ">> \o draft
             \o <<" ","i","s"," ","a","l","r","e","a","d","y"," ","p","u","b","l","i","s","h","e","d"," ","a","s"," ","a","n"," ","R","F","C"," ","a","n","d"," ","s","h","o","u","l","d"," ","n","o","t"," ","b","e"," ","r","e","f","e","r","e","n","c","e","d"," ","a","s"," ","a"," ","d","r","a","f","t",".">>)>>
  ELSE <<>>

\* lines 650-662 and 683-688: the call up to its loop
CallVlidateDraftReferences ==
  /\ val.pc = "ready"
  /\ val.callsLeft > 0
  /\ \E mode \in MODES :
       \E drafts \in {draftReferences(val.doc)} :
         val' = IF mode = "SUBMISSION"
                THEN EndCall(BeginCall(val, "vlidateDraftReferences", mode, FALSE), "none")
                ELSE IF drafts.thrown # "none"
                THEN EndCall(BeginCall(val, "vlidateDraftReferences", mode, FALSE), drafts.thrown)
                ELSE [BeginCall(val, "vlidateDraftReferences", mode, FALSE) EXCEPT
                        !.pc = "loop", !.refs = drafts.value]
  /\ UNCHANGED <<cli, lastIndex, txt>>

\* one iteration of for (let i = 0; i < drafts.length; i++)
DraftLookup ==
  /\ val.pc = "loop"
  /\ val.fn = "vlidateDraftReferences"
  /\ Len(val.lookups) < Len(val.refs)
  /\ \E draft \in {val.refs[Len(val.lookups) + 1]} :
       \E pushed \in {DraftIteration(draft, fetchRemoteDocInfoJson(draft))} :
         val' = [val EXCEPT !.result = @ \o pushed,
                            !.lookups = Append(@, [ref |-> draft,
                                                   rfcInfo |-> fetchRemoteDocInfoJson(draft),
                                                   pushed |-> pushed])]
  /\ UNCHANGED <<cli, lastIndex, txt>>

\* the loop is over: return result
DraftValidatorReturn ==
  /\ val.pc = "loop"
  /\ val.fn = "vlidateDraftReferences"
  /\ Len(val.lookups) = Len(val.refs)
  /\ val' = EndCall(val, "none")
  /\ UNCHANGED <<cli, lastIndex, txt>>

NextDrafts == CallVlidateDraftReferences \/ DraftLookup \/ DraftValidatorReturn

(***************************************************************************)
(* The lookups of the reference validators as the event loop runs them:     *)
(* the await of an iteration hands a request to the network (val.inflight   *)
(* holds the positions in refs of the requests out) and the iteration goes  *)
(* on when the answer arrives, after any delay.  val.index counts the       *)
(* requests the call has issued.                                            *)
(***************************************************************************)
\* what the iteration of a validator pushes for a reference and its answer
IterationOf(fn, ref, info, mode) ==
  CASE fn = "validateNormativeReferences" -> NormativeIteration(ref, info, mode)
    [] fn = "validateInformativeReferences" -> InformativeIteration(ref, info, mode)
    [] fn = "validateUnclassifiedReferences" -> UnclassifiedIteration(ref, info, mode)
    [] fn = "vlidateDraftReferences" -> DraftIteration(ref, info)
RemoteAnswer(fn, ref) ==
  IF fn = "vlidateDraftReferences" THEN fetchRemoteDocInfoJson(ref) ELSE fetchRemoteRfcInfo(ref)

\* const rfcInfo = await fetchRemoteRfcInfo(rfcNum) at the head of the loop
\* body: the position whose lookup the loop issues now, none while the answer
\* to the one before is awaited; the mutation does not await it
NextToIssueUnawaited(v) == IF v.index < Len(v.refs) THEN {v.index + 1} ELSE {}
NextToIssue(v) == IF v.inflight = {} /\ v.index < Len(v.refs) THEN {v.index + 1} ELSE {}

\* the loop reaches its await: the request goes out
LookupIssue ==
  /\ val.pc = "loop"
  /\ val.fn \in ReferenceValidators \cup {"vlidateDraftReferences"}
  /\ \E i \in NextToIssue(val) :
       val' = [val EXCEPT !.index = i, !.inflight = @ \cup {i}]
  /\ UNCHANGED <<cli, lastIndex, txt>>

\* the answer to a request that is out arrives and the rest of its iteration runs
LookupSettle ==
  /\ val.pc = "loop"
  /\ \E i \in val.inflight :
       \E pushed \in {IterationOf(val.fn, val.refs[i], RemoteAnswer(val.fn, val.refs[i]),
                                  val.mode)} :
         val' = [val EXCEPT !.inflight = @ \ {i},
                            !.result = @ \o pushed,
                            !.lookups = Append(@, [ref |-> val.refs[i],
                                                   rfcInfo |-> RemoteAnswer(val.fn, val.refs[i]),
                                                   pushed |-> pushed])]
  /\ UNCHANGED <<cli, lastIndex, txt>>

NextAwait ==
  \/ CallReferenceValidator
  \/ CallVlidateDraftReferences
  \/ LookupIssue
  \/ LookupSettle
  \/ ReferenceValidatorReturn
  \/ DraftValidatorReturn

(***************************************************************************)
(* validateCategory.                                                       *)
(***************************************************************************)
\* an XML Document by the attributes of <rfc> and of <front><date>
FrontMatterDoc(attr, date) ==
  [type |-> "xml",
   data |-> [extractedElements |-> Null,
             rfc |-> Some([attr |-> attr, front |-> [date |-> date]])]]

\* a string attribute is truthy when it is set and not the empty string
Truthy(value) == value # Null /\ value[1] # <<>>

CATEGORIES == {<<"s","t","d">>, <<"b","c","p">>, <<"i","n","f","o">>, <<"e","x","p">>, <<"h","i","s","t","o","r","i","c">>}

\* lines 70-97
validateCategory(doc) ==
  IF doc.type = "txt" THEN Returned(<<>>)
  ELSE IF doc.data.rfc[1].attr.docName = Null THEN Thrown("TypeError")
  ELSE IF ~StartsWith(doc.data.rfc[1].attr.docName[1], <<"d","r","a","f","t","-">>)
          /\ ~Truthy(doc.data.rfc[1].attr.category)
  THEN Returned(<<ValidationWarning("MISSING_DOC_CATEGORY",
                    <<"T","h","e"," ","d","o","c","u","m","e","n","t"," ","c","a","t","e","g","o","r","y"," ","a","t","t","r","i","b","u","t","e"," ","i","s"," ","m","i","s","s","i","n","g"," ","o","n"," ","t","h","e"," ","<","r","f","c",">"," ","e","l","e","m","e","n","t",".">>)>>)
  ELSE IF Truthy(doc.data.rfc[1].attr.category)
          /\ doc.data.rfc[1].attr.category[1] \notin CATEGORIES
  THEN Returned(<<ValidationWarning("INVALID_DOC_CATEGORY",
                    <<"T","h","e"," ","d","o","c","u","m","e","n","t"," ","c","a","t","e","g","o","r","y"," ","h","a","s"," ","a","n"," ","i","n","v","a","l","i","d"," ","v","a","l","u","e","."," ","A","l","l","o","w","e","d"," ","v","a","l","u","e","s"," ","a","r","e"," ","s","t","d",","," ","b","c","p",","," ","i","n","f","o",","," ","e","x","p"," ","a","n","d"," ","h","i","s","t","o","r","i","c",".">>)>>)
  ELSE Returned(<<>>)

\* the whole call: the validator awaits nothing
CallValidateCategory ==
  /\ val.pc = "ready"
  /\ val.callsLeft > 0
  /\ \E mode \in MODES :
       \E r \in {validateCategory(val.doc)} :
         val' = EndCall([BeginCall(val, "validateCategory", mode, FALSE) EXCEPT
                           !.result = @ \o r.value],
                        r.thrown)
  /\ UNCHANGED <<cli, lastIndex, txt>>

(***************************************************************************)
(* validateDate.  The clock of the process is counted in quarters of a day  *)
(* from the first day of year 1: `today` is the date at which the module   *)
(* was loaded, `now` the time diffNow() reads.                              *)
(***************************************************************************)
MonthNames ==
  <<<<"J","a","n","u","a","r","y">>, <<"F","e","b","r","u","a","r","y">>, <<"M","a","r","c","h">>, <<"A","p","r","i","l">>, <<"M","a","y">>, <<"J","u","n","e">>, <<"J","u","l","y">>,
    <<"A","u","g","u","s","t">>, <<"S","e","p","t","e","m","b","e","r">>, <<"O","c","t","o","b","e","r">>, <<"N","o","v","e","m","b","e","r">>, <<"D","e","c","e","m","b","e","r">>>>

\* DateTime.fromFormat(month, 'MMMM').month: the number of a month name, NaN
\* (null here) for any other string
MonthOfName(month) ==
  IF \E m \in 1..12 : MonthNames[m] = month
  THEN Some(CHOOSE m \in 1..12 : MonthNames[m] = month)
  ELSE Null

IsLeapYear(year) == year % 4 = 0 /\ (year % 100 # 0 \/ year % 400 = 0)
DaysInMonth(year, month) ==
  IF month = 2 THEN (IF IsLeapYear(year) THEN 29 ELSE 28)
  ELSE IF month \in {4, 6, 9, 11} THEN 30 ELSE 31
RECURSIVE DaysBeforeMonth(_, _)
DaysBeforeMonth(year, month) ==
  IF month = 1 THEN 0 ELSE DaysBeforeMonth(year, month - 1) + DaysInMonth(year, month - 1)
DayNumber(year, month, day) ==
  365 * (year - 1) + ((year - 1) \div 4) - ((year - 1) \div 100) + ((year - 1) \div 400)
    + DaysBeforeMonth(year, month) + (day - 1)

QuartersPerDay == 4

\* DateTime.fromObject({ year, month, day }): throws for a unit that is not a
\* number, is invalid (null) for a day the month does not have, and is
\* otherwise the midnight that begins the day
fromObject(year, month, day) ==
  IF month = Null THEN Thrown("InvalidArgumentError")
  ELSE IF month[1] \notin 1..12 \/ day \notin 1..DaysInMonth(year, month[1]) THEN Returned(Null)
  ELSE Returned(Some(QuartersPerDay * DayNumber(year, month[1], day)))

\* Math.round(dt.diffNow().as('days')): halves round up
RoundedDays(dt, now) == (dt - now + (QuartersPerDay \div 2)) \div QuartersPerDay

RECURSIVE NumberToString(_)
NumberToString(n) ==
  IF n < 10 THEN <<ToString(n)>> ELSE NumberToString(n \div 10) \o <<ToString(n % 10)>>

\* lines 36-41: the date of the attributes, a missing one taken from today
DocDateTime(docDate, today) ==
  fromObject(IF Truthy(docDate.year) THEN ParseInt(docDate.year[1]) ELSE today.year,
             IF Truthy(docDate.month) THEN MonthOfName(docDate.month[1]) ELSE Some(today.month),
             IF Truthy(docDate.day) THEN ParseInt(docDate.day[1]) ELSE today.day)

\* lines 42-54: the finding of a distance in days; an invalid date has the
\* distance NaN, which no comparison holds for
DistanceFinding(dt, now) ==
  IF dt = Null THEN <<>>
  ELSE IF RoundedDays(dt[1], now) < -3
  THEN <<ValidationWarning("DOC_DATE_IN_PAST",
           <<"T","h","e"," ","d","o","c","u","m","e","n","t"," ","d","a","t","e"," ","i","s"," ">> \o NumberToString(RoundedDays(dt[1], now) * (-1))
             \o <<" ","d","a","y","s"," ","i","n"," ","t","h","e"," ","p","a","s","t","."," ","I","s"," ","t","h","i","s"," ","i","n","t","e","n","t","i","o","n","a","l","?">>)>>
  ELSE IF RoundedDays(dt[1], now) > 3
  THEN <<ValidationWarning("DOC_DATE_IN_FUTURE",
           <<"T","h","e"," ","d","o","c","u","m","e","n","t"," ","d","a","t","e"," ","i","s"," ">> \o NumberToString(RoundedDays(dt[1], now))
             \o <<" ","d","a","y","s"," ","i","n"," ","t","h","e"," ","f","u","t","u","r","e","."," ","I","s"," ","t","h","i","s"," ","i","n","t","e","n","t","i","o","n","a","l","?">>)>>
  ELSE <<>>

\* lines 22-60
validateDate(doc, clock) ==
  IF doc.type = "txt" THEN Returned(<<>>)
  ELSE IF doc.data.rfc[1].front.date = Null
  THEN Returned(<<ValidationWarning("MISSING_DOC_DATE",
                    <<"T","h","e"," ","d","o","c","u","m","e","n","t"," ","d","a","t","e"," ","c","o","u","l","d"," ","n","o","t"," ","b","e"," ","d","e","t","e","r","m","i","n","e","d",".">>)>>)
  ELSE IF DocDateTime(doc.data.rfc[1].front.date[1], clock.today).thrown # "none"
  THEN DocDateTime(doc.data.rfc[1].front.date[1], clock.today)
  ELSE Returned(DistanceFinding(DocDateTime(doc.data.rfc[1].front.date[1], clock.today).value,
                                clock.now))

\* the whole call: the validator awaits nothing; `lookups` keeps the time it read
CallValidateDate ==
  /\ val.pc = "ready"
  /\ val.callsLeft > 0
  /\ \E mode \in MODES :
       \E r \in {validateDate(val.doc, val.clock)} :
         val' = EndCall([BeginCall(val, "validateDate", mode, FALSE) EXCEPT
                           !.result = @ \o r.value,
                           !.lookups = <<[ref |-> <<"n","o","w">>, rfcInfo |-> val.clock.now,
                                          pushed |-> r.value]>>],
                        r.thrown)
  /\ UNCHANGED <<cli, lastIndex, txt>>

\* time passes between two calls
MaxTicks == 1
LoadTime(clock) == QuartersPerDay * DayNumber(clock.today.year, clock.today.month, clock.today.day)
Tick ==
  /\ val.pc = "ready"
  /\ val.callsLeft > 0
  /\ val.clock.now < LoadTime(val.clock) + (QuartersPerDay - 1) + MaxTicks
  /\ val' = [val EXCEPT !.clock.now = @ + 1]
  /\ UNCHANGED <<cli, lastIndex, txt>>

NextFrontMatter == CallValidateCategory \/ CallValidateDate \/ Tick

(***************************************************************************)
(* Specifications.                                                         *)
(***************************************************************************)
LastIndexZero == [INLINE_CODE_FORMAT |-> 0, SUBSECTION_PATTERN |-> 0, RFC_NUM_RE |-> 0]

InitCli ==
  /\ cli \in {CliStart(o) : o \in OutputFormat}
  /\ lastIndex = LastIndexZero
  /\ txt = TxtIdle
  /\ val = ValIdle

SpecCli == InitCli /\ [][NextCli]_vars

SeqsUpTo(S, n) == UNION {[1..k -> S] : k \in 0..n}

\* the lines a header block is drawn from
MaxHeaderLines == 3
HeaderLines ==
  {<<"S","h","o","r","t"," ","S","o","u","r","c","e"," "," "," ","J","."," ","D","o","e">>,
   <<"S","h","o","r","t"," ","S","o","u","r","c","e"," "," ","J","."," ","D","o","e">>,
   <<"T","i","t","l","e">>,
   <<"T","i","t","l","e","\f">>,
   <<>>,
   <<" ">>,
   <<"I","n","t","e","r","n","e","t","-","D","r","a","f","t"," "," ","E","x","a","m","p","l","e"," ","O","r","g">>,
   <<"O","b","s","o","l","e","t","e","s"," "," ","A","."," ","R","o","e">>,
   <<"M","a","r","c","h"," ","2","0","2","4">>}

\* a fresh process parses a header block once
InitTxtHeader ==
  /\ cli = CliIdle
  /\ lastIndex = LastIndexZero
  /\ txt \in {TxtReady(t, 1) : t \in SeqsUpTo(HeaderLines, MaxHeaderLines)}
  /\ val = ValIdle

SpecTxtHeader == InitTxtHeader /\ [][NextTxt]_vars

\* a body drawn from BodyLines, alone or below a header block, title and slug
MaxBodyLines == 3
MaxParses == 2
BodyLines ==
  {<<"A","b","s","t","r","a","c","t">>,
   <<" "," ","S","e","e"," ","R","F","C"," ","2","1","1","9">>,
   <<"1","."," ","O","v","e","r","v","i","e","w">>,
   <<"2","."," ","R","e","f","e","r","e","n","c","e","s">>,
   <<"#"," ","x"," "," ","y">>,
   <<>>}
Preamble == <<<<"S","h","o","r","t"," ","S","o","u","r","c","e"," "," ","J","."," ","D","o","e">>, <<>>, <<"A"," ","T","i","t","l","e">>, <<"a","-","s","l","u","g">>>>

\* a fresh process parses its text MaxParses times
InitTxtBody ==
  /\ cli = CliIdle
  /\ lastIndex = LastIndexZero
  /\ txt \in {TxtReady(h \o b, MaxParses) :
                h \in {<<>>, Preamble}, b \in SeqsUpTo(BodyLines, MaxBodyLines)}
  /\ val = ValIdle

SpecTxtBody == InitTxtBody /\ [][NextTxt]_vars

\* the answers of the RFC info lookup: nothing, or a record {status?,
\* obsoleted_by, updated_by}
RfcInfo(status, obsoleted_by, updated_by) ==
  Some([status |-> status, obsoleted_by |-> obsoleted_by, updated_by |-> updated_by])
RfcInfoAnswers ==
  {Null,
   RfcInfo(Null, <<<<"9","0","0","0">>>>, <<>>),
   RfcInfo(Some(<<"P","r","o","p","o","s","e","d"," ","S","t","a","n","d","a","r","d">>), <<>>, <<>>),
   RfcInfo(Some(<<"P","r","o","p","o","s","e","d"," ","S","t","a","n","d","a","r","d">>), <<<<"9","0","0","0">>, <<"9","0","0","1">>>>, <<>>),
   RfcInfo(Some(<<"U","n","k","n","o","w","n"," ","S","t","a","t","u","s">>), <<>>, <<>>)}

\* the Documents of the reference validators: a TXT Document lists each RFC of
\* its reference section once, under the subsection it stands in; an XML
\* Document holds up to MaxSections <references> of up to MaxReferences
\* <reference> each
MaxReferences == 2
MaxSections == 1
ReferencedRfcs == {<<"4","0","8","6">>, <<"8","1","4","1">>}
Subsections == {"normative_references", "informative_references", "unclassified_references",
                "null"}
ReferenceSectionRfcLists ==
  {l \in SeqsUpTo([value : ReferencedRfcs, subsection : Subsections], MaxReferences) :
     \A i, j \in 1..Len(l) : l[i].value = l[j].value => i = j}
ReferenceElements == {[anchor |-> Some(<<"R","F","C">> \o n)] : n \in ReferencedRfcs}
ReferencesSections(elements) ==
  {[reference |-> r] :
     r \in {Undefined} \cup {Object(x) : x \in elements}
           \cup {Array(xs) : xs \in SeqsUpTo(elements, MaxReferences)}}
XmlReferences(elements) ==
  {Undefined, Object([reference |-> Undefined])}
    \cup {Array(ss) : ss \in SeqsUpTo(ReferencesSections(elements), MaxSections)}
NoAttr == [obsoletes |-> Null, updates |-> Null]

InitReferences ==
  /\ cli = CliIdle
  /\ lastIndex = LastIndexZero
  /\ txt = TxtIdle
  /\ val \in {ValReady(doc, remote, {}, 1) :
                doc \in {TxtDoc(l, <<>>) : l \in ReferenceSectionRfcLists}
                          \cup {XmlDoc(NoAttr, <<>>, r) : r \in XmlReferences(ReferenceElements)},
                remote \in [ReferencedRfcs -> RfcInfoAnswers]}

SpecReferences == InitReferences /\ [][NextReferences]_vars

\* the Documents of validateDownrefs: RFC and draft references, and a registry
\* that lists some of their normalized labels
DraftLabels == {<<"[","d","r","a","f","t","-","a","-","0","1","]">>, <<"[","d","r","a","f","t","-","a","-","0","2","]">>, <<"[","I","-","D",".","b","]">>}
DraftReferenceLists ==
  {l \in SeqsUpTo([value : DraftLabels, subsection : {"normative_references"}], MaxReferences) :
     \A i, j \in 1..Len(l) : l[i].value = l[j].value => i = j}
NormativeRfcLists ==
  {l \in ReferenceSectionRfcLists : \A k \in 1..Len(l) : l[k].subsection = "normative_references"}
DownrefElements ==
  {[anchor |-> Some(a)] : a \in {<<"R","F","C","4","0","8","6">>, <<"d","r","a","f","t","-","a","-","0","1">>, <<"d","r","a","f","t","-","a","-","0","2">>}}
Registries == SUBSET {<<"R","F","C"," ","4","0","8","6">>, <<"d","r","a","f","t","-","a">>}

InitDownrefs ==
  /\ cli = CliIdle
  /\ lastIndex = LastIndexZero
  /\ txt = TxtIdle
  /\ val \in {ValReady(doc, <<>>, registry, 1) :
                doc \in {TxtDoc(r, d) : r \in NormativeRfcLists, d \in DraftReferenceLists}
                          \cup {XmlDoc(NoAttr, <<>>, r) : r \in XmlReferences(DownrefElements)},
                registry \in Registries}

SpecDownrefs == InitDownrefs /\ [][NextDownrefs]_vars

\* the Documents of validateObsoleteUpdateRef: an <rfc> with or without
\* obsoletes and updates attributes and an abstract of up to one string; the
\* process calls the validator MaxCalls times
MaxCalls == 2
MetaRfcs == {<<"1","2","3","4">>, <<"5","6","7","8">>}
MetaAnswers ==
  {Null,
   RfcInfo(Some(<<"P","r","o","p","o","s","e","d"," ","S","t","a","n","d","a","r","d">>), <<>>, <<>>),
   RfcInfo(Some(<<"P","r","o","p","o","s","e","d"," ","S","t","a","n","d","a","r","d">>), <<<<"9","0","0","0">>>>, <<>>),
   RfcInfo(Some(<<"P","r","o","p","o","s","e","d"," ","S","t","a","n","d","a","r","d">>), <<>>, <<<<"9","0","0","1">>>>)}
MetaAttrs ==
  [obsoletes : {Null, Some(<<"1","2","3","4">>), Some(<<"1","2","3","4",","," ","5","6","7","8">>)},
   updates : {Null, Some(<<"5","6","7","8">>)}]
MetaAbstracts ==
  {<<>>, <<<<"T","h","i","s"," ","d","o","c","u","m","e","n","t"," ","o","b","s","o","l","e","t","e","s"," ","R","F","C"," ","1","2","3","4",".">>>>, <<<<"I","t"," ","u","p","d","a","t","e","s"," ","5","6","7","8","\n","a","n","d"," ","1","2","3","4",".">>>>}

InitMeta ==
  /\ cli = CliIdle
  /\ lastIndex = LastIndexZero
  /\ txt = TxtIdle
  /\ val \in {ValReady(doc, remote, {}, MaxCalls) :
                doc \in {TxtDoc(<<>>, <<>>)}
                          \cup {XmlDoc(attr, abstract, Undefined) :
                                  attr \in MetaAttrs, abstract \in MetaAbstracts},
                remote \in [MetaRfcs -> MetaAnswers]}

SpecMeta == InitMeta /\ [][NextMeta]_vars

\* the same Documents with fewer answers, for what the call reports before
\* its first lookup
InitMentions ==
  /\ cli = CliIdle
  /\ lastIndex = LastIndexZero
  /\ txt = TxtIdle
  /\ val \in {ValReady(doc, remote, {}, MaxCalls) :
                doc \in {TxtDoc(<<>>, <<>>)}
                          \cup {XmlDoc(attr, abstract, Undefined) :
                                  attr \in MetaAttrs, abstract \in MetaAbstracts},
                remote \in [MetaRfcs ->
                              {Null, RfcInfo(Some(<<"P","r","o","p","o","s","e","d"," ","S","t","a","n","d","a","r","d">>), <<<<"9","0","0","0">>>>, <<>>)}]}

SpecMentions == InitMentions /\ [][NextMeta]_vars

\* the Documents of vlidateDraftReferences: labels and anchors that name the
\* drafts draft-a and draft-b or no draft, and the answers of the draft info
\* lookup: nothing, or a record {state?}
DocInfo(state) == Some([state |-> state])
DocInfoAnswers == {Null, DocInfo(Null), DocInfo(Some(<<"R","F","C">>)), DocInfo(Some(<<"A","c","t","i","v","e">>))}
ReferencedDrafts == {<<"d","r","a","f","t","-","a">>, <<"d","r","a","f","t","-","b">>}
DraftStateLabels == {<<"[","d","r","a","f","t","-","a","-","0","1","]">>, <<"[","d","r","a","f","t","-","b","]">>, <<"[","I","A","N","A","]">>}
DraftStateLists ==
  {l \in SeqsUpTo([value : DraftStateLabels, subsection : {"normative_references"}], MaxReferences) :
     \A i, j \in 1..Len(l) : l[i].value = l[j].value => i = j}
DraftStateElements ==
  {[anchor |-> Some(a)] : a \in {<<"R","F","C","4","0","8","6">>, <<"d","r","a","f","t","-","a","-","0","1">>, <<"d","r","a","f","t","-","b">>}}

InitDrafts ==
  /\ cli = CliIdle
  /\ lastIndex = LastIndexZero
  /\ txt = TxtIdle
  /\ val \in {ValReady(doc, remote, {}, 1) :
                doc \in {TxtDoc(<<>>, d) : d \in DraftStateLists}
                          \cup {XmlDoc(NoAttr, <<>>, r) : r \in XmlReferences(DraftStateElements)},
                remote \in [ReferencedDrafts -> DocInfoAnswers]}

SpecDrafts == InitDrafts /\ [][NextDrafts]_vars

\* a process that calls the reference validators MaxCalls times on its
\* Document, for what two calls have in common
InitReferencePairs ==
  /\ cli = CliIdle
  /\ lastIndex = LastIndexZero
  /\ txt = TxtIdle
  /\ val \in {ValReady(doc, remote, {}, MaxCalls) :
                doc \in {TxtDoc(l, <<>>) : l \in ReferenceSectionRfcLists}
                          \cup {XmlDoc(NoAttr, <<>>, r) : r \in XmlReferences(ReferenceElements)},
                remote \in [ReferencedRfcs ->
                              {Null,
                               RfcInfo(Some(<<"U","n","k","n","o","w","n"," ","S","t","a","t","u","s">>), <<>>, <<>>),
                               RfcInfo(Some(<<"P","r","o","p","o","s","e","d"," ","S","t","a","n","d","a","r","d">>), <<<<"9","0","0","0">>>>, <<>>)}]}

SpecReferencePairs == InitReferencePairs /\ [][NextReferences]_vars

\* a process that calls one of the four validators that look references up
InitLookups ==
  \/ /\ cli = CliIdle
     /\ lastIndex = LastIndexZero
     /\ txt = TxtIdle
     /\ val \in {ValReady(doc, remote, {}, 1) :
                   doc \in {TxtDoc(l, <<>>) : l \in ReferenceSectionRfcLists}
                             \cup {XmlDoc(NoAttr, <<>>, r) : r \in XmlReferences(ReferenceElements)},
                   remote \in [ReferencedRfcs ->
                                 {Null,
                                  RfcInfo(Null, <<<<"9","0","0","0">>>>, <<>>),
                                  RfcInfo(Some(<<"P","r","o","p","o","s","e","d"," ","S","t","a","n","d","a","r","d">>), <<<<"9","0","0","0">>>>, <<>>)}]}
  \/ InitDrafts
NextLookups == NextReferences \/ NextDrafts
SpecLookups == InitLookups /\ [][NextLookups]_vars

\* a process that calls the reference validators and validateDownrefs
\* MaxCalls times on its Document, an XML Document having one <references>
OneSection(elements) == {Undefined} \cup {Array(<<section>>) : section \in ReferencesSections(elements)}
InitValidatorPairs ==
  \/ /\ cli = CliIdle
     /\ lastIndex = LastIndexZero
     /\ txt = TxtIdle
     /\ val \in {ValReady(doc, remote, {}, MaxCalls) :
                   doc \in {TxtDoc(l, <<>>) : l \in ReferenceSectionRfcLists}
                             \cup {XmlDoc(NoAttr, <<>>, r) : r \in OneSection(ReferenceElements)},
                   remote \in {[r \in ReferencedRfcs |-> a] :
                                 a \in {Null, RfcInfo(Some(<<"P","r","o","p","o","s","e","d"," ","S","t","a","n","d","a","r","d">>), <<<<"9","0","0","0">>>>, <<>>)}}}
  \/ /\ cli = CliIdle
     /\ lastIndex = LastIndexZero
     /\ txt = TxtIdle
     /\ val \in {ValReady(doc, <<>>, registry, MaxCalls) :
                   doc \in {TxtDoc(r, d) : r \in NormativeRfcLists, d \in DraftReferenceLists}
                             \cup {XmlDoc(NoAttr, <<>>, r) : r \in OneSection(DownrefElements)},
                   registry \in Registries}
NextValidatorPairs == NextReferences \/ NextDownrefs
SpecValidatorPairs == InitValidatorPairs /\ [][NextValidatorPairs]_vars

\* the Documents of validateCategory and validateDate: an <rfc> with or without
\* docName and category and no date, and a draft with a date of some of the
\* attributes year, month and day; the module was loaded on one of two days
DocNames == {Null, Some(<<"d","r","a","f","t","-","i","e","t","f","-","a","-","0","1">>), Some(<<"r","f","c","9","9","9","9">>), Some(<<"D","r","a","f","t","-","b">>)}
DocCategories == {Null, Some(<<>>), Some(<<"s","t","d">>), Some(<<"h","i","s","t","o","r","i","c">>), Some(<<"S","T","D">>), Some(<<"d","r","a","f","t">>)}
DocDates ==
  [year : {Null, Some(<<"2","0","2","6">>)},
   month : {Null, Some(<<"M","a","r","c","h">>), Some(<<"F","e","b","r","u","a","r","y">>), Some(<<"3">>)},
   day : {Null, Some(<<"1">>), Some(<<"2">>), Some(<<"8">>), Some(<<"9">>), Some(<<"3","0">>)}]
LoadDays == {[year |-> 2026, month |-> 3, day |-> 5], [year |-> 2026, month |-> 1, day |-> 30]}
Clocks ==
  {[today |-> d, now |-> QuartersPerDay * DayNumber(d.year, d.month, d.day) + q] :
     d \in LoadDays, q \in 0..(QuartersPerDay - 1)}

InitFrontMatter ==
  /\ cli = CliIdle
  /\ lastIndex = LastIndexZero
  /\ txt = TxtIdle
  /\ val \in {[ValReady(doc, <<>>, {}, MaxCalls) EXCEPT !.clock = clock] :
                doc \in {TxtDoc(<<>>, <<>>)}
                          \cup {FrontMatterDoc([docName |-> n, category |-> c], Null) :
                                  n \in DocNames, c \in DocCategories}
                          \cup {FrontMatterDoc([docName |-> Some(<<"d","r","a","f","t","-","i","e","t","f","-","a","-","0","1">>), category |-> Null],
                                               Some(d)) :
                                  d \in DocDates \ {[year |-> Null, month |-> Null, day |-> Null]}},
                clock \in Clocks}

SpecFrontMatter == InitFrontMatter /\ [][NextFrontMatter]_vars

\* a numbered body below the header block, the title and the slug: section
\* and subsection headings, a table of contents line, citations
MaxSectionLines == 3
SectionLines ==
  {<<"1","."," ","O","v","e","r","v","i","e","w">>,
   <<"2","."," ","R","e","f","e","r","e","n","c","e","s">>,
   <<"2",".","1","."," ","N","o","r","m","a","t","i","v","e"," ","R","e","f","e","r","e","n","c","e","s">>,
   <<"2",".","2","."," ","I","n","f","o","r","m","a","t","i","v","e"," ","R","e","f","e","r","e","n","c","e","s">>,
   <<"2",".","2","."," ","I","n","f","o","r","m","a","t","i","v","e"," ","R","e","f","e","r","e","n","c","e","s"," ",".",".","5">>,
   <<"R","F","C"," ","2","1","1","9"," ","[","x","]">>,
   <<"3","."," ","R","F","C"," ","8","1","7","4">>,
   <<"A","b","s","t","r","a","c","t">>}

InitTxtSections ==
  /\ cli = CliIdle
  /\ lastIndex = LastIndexZero
  /\ txt \in {TxtReady(Preamble \o b, 1) : b \in SeqsUpTo(SectionLines, MaxSectionLines)}
  /\ val = ValIdle

SpecTxtSections == InitTxtSections /\ [][NextTxt]_vars

\* a body of comment-like lines, code block markers and a page header line
\* below the header block
MaxCodeLines == 3
CodeLines ==
  {<<"#"," ","x">>,
   <<"a"," ","/","*"," ","b">>,
   <<"<","C","O","D","E"," ","B","E","G","I","N","S",">">>,
   <<"<","C","O","D","E"," ","E","N","D","S",">">>,
   <<"x"," ","y">>,
   <<"I","n","t","e","r","n","e","t","-","D","r","a","f","t"," "," ","x">>}

InitTxtCode ==
  /\ cli = CliIdle
  /\ lastIndex = LastIndexZero
  /\ txt \in {TxtReady(Preamble \o b, 1) : b \in SeqsUpTo(CodeLines, MaxCodeLines)}
  /\ val = ValIdle

SpecTxtCode == InitTxtCode /\ [][NextTxt]_vars

\* a first header line and the lines below it: blank lines, a header line of
\* two columns, a title at the margin and a centred one
MaxTitleLines == 4
TitleLines ==
  {<<>>,
   <<"I","n","t","e","r","n","e","t","-","D","r","a","f","t"," "," ","E","x","a","m","p","l","e"," ","O","r","g">>,
   <<"A"," ","T","i","t","l","e">>,
   <<" "," ","A"," ","T","i","t","l","e">>}

InitTxtTitle ==
  /\ cli = CliIdle
  /\ lastIndex = LastIndexZero
  /\ txt \in {TxtReady(<<<<"S","h","o","r","t"," ","S","o","u","r","c","e"," "," ","J","."," ","D","o","e">>>> \o b, 1) :
                b \in SeqsUpTo(TitleLines, MaxTitleLines)}
  /\ val = ValIdle

SpecTxtTitle == InitTxtTitle /\ [][NextTxt]_vars

\* a first header line and the header lines below it: authors, organisations
\* (one below a date, one whose left column is empty) and blank lines
MaxAuthorLines == 3
AuthorLines ==
  {<<>>,
   <<"S","t","a","t","u","s"," "," ","A","."," ","R","o","e">>,
   <<"I","n","t","e","r","n","e","t","-","D","r","a","f","t"," "," ","E","x","a","m","p","l","e"," ","O","r","g">>,
   <<"M","a","r","c","h"," ","2","0","2","4"," "," ","O","t","h","e","r"," ","O","r","g">>,
   <<" "," ","A","c","m","e">>}

InitTxtAuthors ==
  /\ cli = CliIdle
  /\ lastIndex = LastIndexZero
  /\ txt \in {TxtReady(<<<<"S","h","o","r","t"," ","S","o","u","r","c","e"," "," ","J","."," ","D","o","e">>>> \o b, 1) :
                b \in SeqsUpTo(AuthorLines, MaxAuthorLines)}
  /\ val = ValIdle

SpecTxtAuthors == InitTxtAuthors /\ [][NextTxt]_vars

\* a body of reference headings and citations below the header block
MaxReferenceLines == 4
ReferenceLines ==
  {<<"1","."," ","O","v","e","r","v","i","e","w">>,
   <<"2","."," ","R","e","f","e","r","e","n","c","e","s">>,
   <<"2",".","1","."," ","N","o","r","m","a","t","i","v","e"," ","R","e","f","e","r","e","n","c","e","s">>,
   <<"2",".","2","."," ","I","n","f","o","r","m","a","t","i","v","e"," ","R","e","f","e","r","e","n","c","e","s">>,
   <<"R","F","C"," ","2","1","1","9">>}

InitTxtReferences ==
  /\ cli = CliIdle
  /\ lastIndex = LastIndexZero
  /\ txt \in {TxtReady(Preamble \o b, 1) : b \in SeqsUpTo(ReferenceLines, MaxReferenceLines)}
  /\ val = ValIdle

SpecTxtReferences == InitTxtReferences /\ [][NextTxt]_vars

\* a process that calls a reference validator or vlidateDraftReferences once,
\* its lookups answered after any delay
InitAwait ==
  \/ /\ cli = CliIdle
     /\ lastIndex = LastIndexZero
     /\ txt = TxtIdle
     /\ val \in {ValReady(doc, remote, {}, 1) :
                   doc \in {TxtDoc(l, <<>>) : l \in ReferenceSectionRfcLists}
                             \cup {XmlDoc(NoAttr, <<>>, r) : r \in OneSection(ReferenceElements)},
                   remote \in {[r \in ReferencedRfcs |-> a] :
                                 a \in {Null, RfcInfo(Some(<<"P","r","o","p","o","s","e","d"," ","S","t","a","n","d","a","r","d">>), <<<<"9","0","0","0">>>>, <<>>)}}}
  \/ InitDrafts
SpecAwait == InitAwait /\ [][NextAwait]_vars

(***************************************************************************)
(* Claims.                                                                 *)
(***************************************************************************)
TxtDocuments == {txt.results[k].document[1] : k \in {j \in 1..Len(txt.results) : txt.results[j].document # Null}}
TxtErrors == {txt.results[k].error[1] : k \in {j \in 1..Len(txt.results) : txt.results[j].error # Null}}
MarkerNames == SectionNames \cup {"header"}

\* C1: the calls of parse a process makes on the same text return the same
\* result: no state one call leaves behind changes what a later call returns.
C1_ParseAgainSameDocument ==
  \A i, j \in 1..Len(txt.results) : txt.results[i] = txt.results[j]

\* C4: every marker whose closed flag is true has end >= start, in every state
\* of the line scan and in every Document parse returns.
C4_ClosedMarkerEndsAfterStart ==
  /\ txt.locals # Null =>
       \A n \in MarkerNames :
         txt.locals[1].markers[n].closed
           => txt.locals[1].markers[n].end >= txt.locals[1].markers[n].start
  /\ \A d \in TxtDocuments : \A n \in MarkerNames :
       d.markers[n].closed => d.markers[n].end >= d.markers[n].start

HasWhiteSpaceRun(s) == \E i \in 1..(Len(s) - 1) : s[i] \in WhiteSpace /\ s[i + 1] \in WhiteSpace
FirstLineWhere(rawText, P(_)) ==
  IF \E i \in 1..Len(rawText) : P(rawText[i])
  THEN Min({i \in 1..Len(rawText) : P(rawText[i])})
  ELSE 0
NotBlank(line) == Trim(line) # <<>>
NotBlankNoFormFeed(line) == Trim(line) # <<>> /\ ~HasChar(line, "\f")
ResultIsDocumentOrParsingFailed(r) ==
  /\ (r.document = Null) # (r.error = Null)
  /\ r.document # Null => r.document[1].type = "txt"
  /\ r.error # Null =>
       r.error[1].name = "TXT_PARSING_FAILED" /\ r.error[1].lineIdx \in 1..Len(txt.rawText)
FailsAtFirstLine(first) ==
  (first # 0 /\ ~HasWhiteSpaceRun(txt.rawText[first]))
    => \A k \in 1..Len(txt.results) :
         txt.results[k] = TxtResult(Some([name |-> "TXT_PARSING_FAILED", lineIdx |-> first]), Null)

\* C5 as stated: every call of parse returns a Document of type txt or fails with
\* TXT_PARSING_FAILED naming a line of the text, and a text whose first non-empty
\* (not blank) line holds no run of two or more white-space characters fails at
\* that line.
C5_FailsAtFirstNonEmptyLine ==
  /\ \A k \in 1..Len(txt.results) : ResultIsDocumentOrParsingFailed(txt.results[k])
  /\ FailsAtFirstLine(FirstLineWhere(txt.rawText, NotBlank))

\* C5, amended: every call of parse returns a Document of type txt or fails with
\* TXT_PARSING_FAILED naming a line of the text, and a text fails at its first
\* line that is not blank and holds no form feed when that line holds no run of
\* two or more white-space characters.
C5_FailsAtFirstHeaderLine ==
  /\ \A k \in 1..Len(txt.results) : ResultIsDocumentOrParsingFailed(txt.results[k])
  /\ FailsAtFirstLine(FirstLineWhere(txt.rawText, NotBlankNoFormFeed))

\* C5 witness: a text that starts with a blank line and a page break, whose
\* third line holds no white-space run, has failed at line 3
C5_Witness ==
  /\ FirstLineWhere(txt.rawText, NotBlankNoFormFeed) = 3
  /\ ~HasWhiteSpaceRun(txt.rawText[3])
  /\ HasChar(txt.rawText[1] \o txt.rawText[2], "\f")
  /\ TxtErrors = {[name |-> "TXT_PARSING_FAILED", lineIdx |-> 3]}

\* the first line of the header block splits at its first run of two or more
\* spaces into a source text and an author name
FirstRun(line) == Min({i \in 1..(Len(line) - 1) : line[i] = " " /\ line[i + 1] = " "})
IsSourceAndAuthor(line) ==
  /\ Trim(line) = line
  /\ \E i \in 2..(Len(line) - 1) : line[i] = " " /\ line[i + 1] = " "
  /\ ~HasWhiteSpaceRun(TrimStart(SubSeq(line, FirstRun(line), Len(line))))
  /\ \A i \in 1..Len(line) : line[i] \in WhiteSpace => line[i] = " "

\* C6: when the first non-empty line is a source text, a run of two or more
\* spaces and an author name, header.source is the source text with no white
\* space after it, the first author is the author name, and it is the only author
\* of a one-line text.
C6_SourceIsTextBeforeTheRun ==
  LET first == FirstLineWhere(txt.rawText, NotBlankNoFormFeed)
      line == txt.rawText[first]
  IN (first # 0 /\ IsSourceAndAuthor(line)) =>
       \A d \in TxtDocuments :
         /\ d.data.header.source = Some(SubSeq(line, 1, FirstRun(line) - 1))
         /\ d.data.header.authors # <<>>
         /\ d.data.header.authors[1].name = TrimStart(SubSeq(line, FirstRun(line), Len(line)))
         /\ Len(txt.rawText) = 1 => Len(d.data.header.authors) = 1

FinishedCalls == {val.calls[k] : k \in 1..Len(val.calls)}
ReportingModes == {"NORMAL", "FORGIVE_CHECKLIST"}
ClassByMode(mode) == IF mode = "NORMAL" THEN "ValidationError" ELSE "ValidationWarning"

\* the RFCs the reference section of a Document refers to under its normative
\* references: of a TXT Document the entries tagged normative_references, of an
\* XML Document the RFC anchors of the <reference> elements of its <references>
ElementsOf(property) == {property.items[k] : k \in 1..Len(property.items)}
NormativeRfcsOf(doc) ==
  IF doc.type = "txt"
  THEN {el.value : el \in {e \in ElementsOf(Array(doc.data.extractedElements[1].referenceSectionRfc)) :
                             e.subsection = "normative_references"}}
  ELSE {FirstDigits(ref.anchor[1])[1] :
          ref \in UNION {ElementsOf(section.reference) :
                           section \in ElementsOf(doc.data.rfc[1].back.references.references)}}

\* C9: a call of validateNormativeReferences in NORMAL or FORGIVE_CHECKLIST
\* yields, for every normative RFC reference of the Document whose remote info
\* has a status and a non-empty obsoleted_by, an OBSOLETE_DOCUMENT finding (an
\* Error in NORMAL, a Warning in FORGIVE_CHECKLIST) whose message names the RFC
\* and holds 'replaced by: ' and the replacements joined by ', '.
C9_ObsoleteNormativeReported ==
  \A c \in FinishedCalls :
    (c.fn = "validateNormativeReferences" /\ c.mode \in ReportingModes) =>
      \A rfcNum \in NormativeRfcsOf(val.doc) :
        LET rfcInfo == fetchRemoteRfcInfo(rfcNum)
        IN (HasStatus(rfcInfo) /\ rfcInfo[1].obsoleted_by # <<>>) =>
             \E k \in 1..Len(c.result) :
               /\ c.result[k].name = "OBSOLETE_DOCUMENT"
               /\ c.result[k].class = ClassByMode(c.mode)
               /\ Includes(c.result[k].message, <<"R","F","C"," ">> \o rfcNum)
               /\ Includes(c.result[k].message,
                           <<"r","e","p","l","a","c","e","d"," ","b","y",":"," ">> \o Join(rfcInfo[1].obsoleted_by, <<","," ">>))

\* C7: of two calls of one validator on the Document and the remote answers of
\* the process, one in NORMAL and one in FORGIVE_CHECKLIST, the second produces
\* the codes of the first, in the same order; one in NORMAL and one in
\* SUBMISSION, every finding of the second is a finding of the first.
FindingCodes(c) == [k \in 1..Len(c.result) |-> c.result[k].name]
FindingsOf(c) == {c.result[k] : k \in 1..Len(c.result)}
C7_ModeMonotonicity ==
  \A c, d \in FinishedCalls :
    (c.fn = d.fn /\ c.offline = d.offline /\ c.mode = "NORMAL") =>
      /\ d.mode = "FORGIVE_CHECKLIST" =>
           (c.thrown = d.thrown /\ FindingCodes(c) = FindingCodes(d))
      /\ d.mode = "SUBMISSION" => FindingsOf(d) \subseteq FindingsOf(c)

\* the drafts the reference section of a Document refers to, by the name that
\* is left of a label without its brackets and its version
ReferenceLabelsOf(doc) ==
  IF doc.type = "txt"
  THEN {el.value : el \in ElementsOf(Array(doc.data.extractedElements[1].referenceSectionDraftReferences))}
  ELSE {ref.anchor[1] :
          ref \in UNION {ElementsOf(section.reference) :
                           section \in ElementsOf(doc.data.rfc[1].back.references.references)}}
ListedDraftsOf(doc) ==
  {StripBracketsAndVersion(l) : l \in ReferenceLabelsOf(doc)} \cap val.registry
FindingsAbout(result, label) ==
  {k \in 1..Len(result) : Includes(result[k].message, <<"D","r","a","f","t"," ">> \o label \o <<" ">>)}

\* C8: a call of validateDownrefs returns, in NORMAL and FORGIVE_CHECKLIST, one
\* DOWNREF_DRAFT finding (an Error, a Warning) for each draft of the reference
\* section that the registry lists and nothing when the registry lists no
\* reference of the Document, and in SUBMISSION nothing without asking the
\* registry.
C8_OneDownrefPerListedDraft ==
  \A c \in FinishedCalls :
    c.fn = "validateDownrefs" =>
      /\ c.thrown = "none"
      /\ c.mode = "SUBMISSION" => (c.result = <<>> /\ c.lookups = <<>>)
      /\ c.mode \in ReportingModes =>
           /\ \A k \in 1..Len(c.result) :
                c.result[k].name = "DOWNREF_DRAFT" /\ c.result[k].class = ClassByMode(c.mode)
           /\ \A d \in ListedDraftsOf(val.doc) : Cardinality(FindingsAbout(c.result, d)) = 1

AllLookups == UNION {ElementsOf(Array(c.lookups)) : c \in FinishedCalls}
                \cup ElementsOf(Array(val.lookups))

\* C10: in the three reference validators, a reference whose lookup returns
\* nothing or a record without a status yields one UNDEFINED_STATUS
\* ValidationComment and nothing else, and a call that returns has looked up
\* every reference of its list and returns what its iterations pushed.
C10_UndefinedStatusThenGoOn ==
  /\ \A e \in AllLookups :
       ~HasStatus(e.rfcInfo) =>
         /\ Len(e.pushed) = 1
         /\ e.pushed[1].class = "ValidationComment"
         /\ e.pushed[1].name = "UNDEFINED_STATUS"
         /\ Includes(e.pushed[1].message, e.ref)
  /\ \A c \in FinishedCalls :
       (c.fn \in ReferenceValidators /\ c.mode \in ReportingModes /\ c.thrown = "none") =>
         /\ c.refs = [k \in 1..Len(c.lookups) |-> c.lookups[k].ref]
         /\ c.result = Flatten([k \in 1..Len(c.lookups) |-> c.lookups[k].pushed])

\* C10 witness: a call has returned whose first lookup answered a record without
\* a status and with a replacement, and whose second lookup answered a status
C10_Witness ==
  \E c \in FinishedCalls :
    /\ c.fn \in ReferenceValidators
    /\ Len(c.lookups) = 2
    /\ c.lookups[1].rfcInfo # Null
    /\ ~HasStatus(c.lookups[1].rfcInfo)
    /\ c.lookups[1].rfcInfo[1].obsoleted_by # <<>>
    /\ HasStatus(c.lookups[2].rfcInfo)
    /\ Len(c.result) >= 1

CliDone == cli.pc = "exited" /\ cli.thrown = "none"

\* C2: the JSON output's result is "pass" when the finding list holds no
\* Error-severity finding (whatever Warnings and Comments it holds) and
\* "fail" when it holds at least one.
C2_JsonResultFollowsErrors ==
  (CliDone /\ cli.output = "json")
    => cli.printed = (IF HasError(cli.result) THEN "fail" ELSE "pass")

\* C3: the process ends with exit code 0 if and only if the run produced no
\* Error-severity finding and no fatal failure, in every output format.
C3_ExitCodeZeroIffClean ==
  cli.pc = "exited"
    => (cli.exitCode = 0 <=> (cli.thrown = "none" /\ ~HasError(cli.result)))

\* the references of the reference section of a Document, in their order: of a
\* TXT Document the labels, of an XML Document the anchors of every <reference>
ItemsOf(property) == property.items
ReferenceSectionLabels(doc) ==
  IF doc.type = "txt"
  THEN Values(doc.data.extractedElements[1].referenceSectionDraftReferences)
  ELSE Flatten([s \in 1..Len(ItemsOf(doc.data.rfc[1].back.references.references)) |->
         [k \in 1..Len(ItemsOf(ItemsOf(doc.data.rfc[1].back.references.references)[s].reference)) |->
            ItemsOf(ItemsOf(doc.data.rfc[1].back.references.references)[s].reference)[k].anchor[1]]])
\* the drafts among them, by name
DraftsOf(doc) ==
  SelectSeq([k \in 1..Len(ReferenceSectionLabels(doc)) |->
               StripBracketsAndVersion(ReferenceSectionLabels(doc)[k])],
            LAMBDA name : StartsWith(name, <<"d","r","a","f","t","-">>))
\* the finding a draft is to yield for the answer of its lookup
DraftFindingFor(draft) ==
  IF ~HasState(val.remote[draft])
  THEN <<[class |-> "ValidationWarning", name |-> "UNDEFINED_STATE"]>>
  ELSE IF val.remote[draft][1].state[1] = <<"R","F","C">>
  THEN <<[class |-> "ValidationWarning", name |-> "INVALID_STATE_FOR_DRAFT"]>>
  ELSE <<>>
ClassAndName(result) == [k \in 1..Len(result) |-> [class |-> result[k].class, name |-> result[k].name]]

\* C11: a call of vlidateDraftReferences that returns gives, in NORMAL and
\* FORGIVE_CHECKLIST, for each draft of the reference section in turn one
\* UNDEFINED_STATE Warning when its lookup gives nothing or no state, one
\* INVALID_STATE_FOR_DRAFT Warning when the state is RFC and nothing for
\* another state; in SUBMISSION it returns nothing and looks nothing up.
C11_OneFindingPerDraft ==
  \A c \in FinishedCalls :
    (c.fn = "vlidateDraftReferences" /\ c.thrown = "none") =>
      /\ c.mode = "SUBMISSION" => (c.result = <<>> /\ c.lookups = <<>>)
      /\ c.mode \in ReportingModes =>
           ClassAndName(c.result) =
             Flatten([k \in 1..Len(DraftsOf(val.doc)) |-> DraftFindingFor(DraftsOf(val.doc)[k])])

StatusComments(c) ==
  SelectSeq(c.result, LAMBDA f : f.class = "ValidationComment"
                                   /\ f.name \in {"UNDEFINED_STATUS", "UNKNOWN_STATUS"})

\* C12: two calls of one reference validator on the Document and the remote
\* answers of the process return the same UNDEFINED_STATUS and UNKNOWN_STATUS
\* Comments, whatever the modes of the two calls.
C12_StatusCommentsInEveryMode ==
  \A c, d \in FinishedCalls :
    (c.fn = d.fn /\ c.fn \in ReferenceValidators) => StatusComments(c) = StatusComments(d)

LookupValidators == ReferenceValidators \cup {"vlidateDraftReferences"}
UndefinedFinding(fn) ==
  IF fn = "vlidateDraftReferences"
  THEN [class |-> "ValidationWarning", name |-> "UNDEFINED_STATE"]
  ELSE [class |-> "ValidationComment", name |-> "UNDEFINED_STATUS"]

C14_ValidatorsNeverThrow ==
  \A c \in FinishedCalls : c.thrown = "none"

CategoryCalls == {c \in FinishedCalls : c.fn = "validateCategory" /\ val.doc.type = "xml"}
IsDraftName(docName) == docName # Null /\ StartsWith(docName[1], <<"d","r","a","f","t","-">>)

\* C16: validateCategory on an XML Document returns no finding for a document
\* whose docName starts with draft-, whatever its category; for any other
\* document it returns MISSING_DOC_CATEGORY when the category is absent or empty,
\* INVALID_DOC_CATEGORY when it is present and not one of std, bcp, info, exp,
\* historic, and nothing otherwise.
C16_CategoryFindings ==
  \A c \in CategoryCalls :
    /\ c.thrown = "none"
    /\ FindingCodes(c) =
         IF IsDraftName(val.doc.data.rfc[1].attr.docName) THEN <<>>
         ELSE IF ~Truthy(val.doc.data.rfc[1].attr.category) THEN <<"MISSING_DOC_CATEGORY">>
         ELSE IF val.doc.data.rfc[1].attr.category[1] \notin CATEGORIES
         THEN <<"INVALID_DOC_CATEGORY">>
         ELSE <<>>

DateCalls == {c \in FinishedCalls : c.fn = "validateDate" /\ val.doc.type = "xml"}
\* the month an attribute names, by its name or by its number
MonthOfAttribute(month) ==
  IF MonthOfName(month) # Null THEN MonthOfName(month)
  ELSE IF month # <<>> /\ (\A k \in 1..Len(month) : month[k] \in Digit) THEN Some(ParseInt(month))
  ELSE Null
\* the date of the Document as a time of the clock, when it is a date of the calendar
DateOfDocument(docDate, today) ==
  fromObject(IF Truthy(docDate.year) THEN ParseInt(docDate.year[1]) ELSE today.year,
             IF Truthy(docDate.month) THEN MonthOfAttribute(docDate.month[1]) ELSE Some(today.month),
             IF Truthy(docDate.day) THEN ParseInt(docDate.day[1]) ELSE today.day).value
DateCodes(distance) ==
  IF distance < -3 THEN <<"DOC_DATE_IN_PAST">>
  ELSE IF distance > 3 THEN <<"DOC_DATE_IN_FUTURE">>
  ELSE <<>>

\* C17: validateDate on an XML Document returns, in every mode, one
\* MISSING_DOC_DATE Warning when the date is absent, and for a date of the
\* calendar one DOC_DATE_IN_PAST Warning when its rounded distance from the
\* time of the call is more than 3 days in the past, one DOC_DATE_IN_FUTURE
\* Warning when it is more than 3 days in the future, and nothing otherwise.
C17_DateFindings ==
  \A c \in DateCalls :
    /\ val.doc.data.rfc[1].front.date = Null =>
         (c.thrown = "none" /\ ClassAndName(c.result) =
            <<[class |-> "ValidationWarning", name |-> "MISSING_DOC_DATE"]>>)
    /\ (/\ val.doc.data.rfc[1].front.date # Null
        /\ DateOfDocument(val.doc.data.rfc[1].front.date[1], val.clock.today) # Null) =>
         /\ c.thrown = "none"
         /\ \A k \in 1..Len(c.result) : c.result[k].class = "ValidationWarning"
         /\ FindingCodes(c) =
              DateCodes(RoundedDays(DateOfDocument(val.doc.data.rfc[1].front.date[1],
                                                   val.clock.today)[1],
                                    c.lookups[1].rfcInfo))

MentionCalls ==
  {c \in FinishedCalls : /\ c.fn = "validateObsoleteUpdateRef"
                         /\ c.mode \in ReportingModes
                         /\ val.doc.type = "xml"}
\* the RFCs an attribute of <rfc> lists, the RFCs the abstract mentions after
\* a word, and the RFCs a call's findings of one code name
ListedRfcs(attr) == {r \in MetaRfcs : attr # Null /\ Includes(attr[1], r)}
MentionedRfcs(word, abstract) ==
  {r \in MetaRfcs : \E k \in 1..Len(abstract) : Includes(abstract[k], word) /\ Includes(abstract[k], r)}
NamedRfcs(c, code) ==
  {r \in MetaRfcs : \E k \in 1..Len(c.result) :
     /\ c.result[k].name = code
     /\ c.result[k].class = "ValidationWarning"
     /\ Includes(c.result[k].message, <<"R","F","C"," ">> \o r \o <<" ","b","u","t">>)}

\* C18: a call of validateObsoleteUpdateRef on an XML Document in NORMAL or
\* FORGIVE_CHECKLIST names in its OBSOLETES_NOT_IN_ABSTRACT Warnings exactly
\* the RFCs the obsoletes attribute lists and the abstract does not mention as
\* obsoleted, in its OBSOLETES_NOT_IN_RFC Warnings exactly those the abstract
\* mentions and the attribute does not list, and the same for updates: none
\* of the four when attribute and abstract name the same RFCs.
C18_AttributeAgainstAbstract ==
  \A c \in MentionCalls :
    /\ c.thrown = "none"
    /\ NamedRfcs(c, "OBSOLETES_NOT_IN_ABSTRACT") =
         ListedRfcs(val.doc.data.rfc[1].attr.obsoletes)
           \ MentionedRfcs(<<"o","b","s","o","l","e","t","e","s">>, val.doc.data.rfc[1].front.abstract)
    /\ NamedRfcs(c, "OBSOLETES_NOT_IN_RFC") =
         MentionedRfcs(<<"o","b","s","o","l","e","t","e","s">>, val.doc.data.rfc[1].front.abstract)
           \ ListedRfcs(val.doc.data.rfc[1].attr.obsoletes)
    /\ NamedRfcs(c, "UPDATES_NOT_IN_ABSTRACT") =
         ListedRfcs(val.doc.data.rfc[1].attr.updates)
           \ MentionedRfcs(<<"u","p","d","a","t","e","s">>, val.doc.data.rfc[1].front.abstract)
    /\ NamedRfcs(c, "UPDATES_NOT_IN_RFC") =
         MentionedRfcs(<<"u","p","d","a","t","e","s">>, val.doc.data.rfc[1].front.abstract)
           \ ListedRfcs(val.doc.data.rfc[1].attr.updates)

\* C18 witness: of the two RFCs the obsoletes attribute lists the abstract
\* mentions one, the call has named the other, and the attribute and the
\* abstract agree on the updated RFC
C18_Witness ==
  \E c \in MentionCalls :
    /\ ListedRfcs(val.doc.data.rfc[1].attr.obsoletes) = MetaRfcs
    /\ MentionedRfcs(<<"o","b","s","o","l","e","t","e","s">>, val.doc.data.rfc[1].front.abstract) = {<<"1","2","3","4">>}
    /\ NamedRfcs(c, "OBSOLETES_NOT_IN_ABSTRACT") = {<<"5","6","7","8">>}
    /\ NamedRfcs(c, "UPDATES_NOT_IN_ABSTRACT") = ListedRfcs(val.doc.data.rfc[1].attr.updates)

\* the entries of the obsoletes and of the updates attribute that hold a number
NumericEntries(doc) ==
  SelectSeq(Values([k \in 1..Len(ObsoleteUpdateRefs(doc)) |->
                      [value |-> ObsoleteUpdateRefs(doc)[k].ref]]),
            LAMBDA ref : \E i \in 1..Len(ref) : ref[i] \in Digit)

\* C19: a call of validateObsoleteUpdateRef on an XML Document that is not
\* offline and not in SUBMISSION has looked up, once each and in the order of
\* the lists, every entry of the obsoletes and of the updates attribute that
\* holds a number; an offline call and a call in SUBMISSION have looked up
\* nothing.
C19_EveryListedRfcLookedUp ==
  \A c \in FinishedCalls :
    (c.fn = "validateObsoleteUpdateRef" /\ val.doc.type = "xml" /\ c.thrown = "none") =>
      [k \in 1..Len(c.lookups) |-> c.lookups[k].ref] =
        IF c.offline \/ c.mode = "SUBMISSION" THEN <<>> ELSE NumericEntries(val.doc)

OpenSections(markers) == {n \in SectionNames : markers[n].start > 0 /\ ~markers[n].closed}

\* C20: after every line of the scan at most one section marker has its start
\* set and closed false, and in every Document parse returns no section marker
\* with a start is left with closed false.
C20_OneOpenSectionAllClosedAtReturn ==
  /\ txt.locals # Null => Cardinality(OpenSections(txt.locals[1].markers)) <= 1
  /\ \A d \in TxtDocuments : OpenSections(d.markers) = {}


\* the lines of the text parse is scanning that lie below the slug, and what
\* the text itself says about them
Scanning == txt.pc = "scan" /\ txt.locals # Null
BodyLinesUpTo(n) ==
  {k \in 1..n : txt.locals[1].markers.slug > 0 /\ k > txt.locals[1].markers.slug
                /\ Trim(txt.rawText[k]) # <<>>}
IsSubsectionHeading(line) ==
  RegexTest(SUBSECTION_PATTERN, Trim(line)) /\ ~RegexTest(TOC_PATTERN, Trim(line))
SubsectionHeadingsUpTo(n) == {k \in BodyLinesUpTo(n) : IsSubsectionHeading(txt.rawText[k])}
HeadingClassAt(n) ==
  IF SubsectionHeadingsUpTo(n) = {} THEN "null"
  ELSE FindMatcher(subsectionMatchers, Trim(txt.rawText[Max(SubsectionHeadingsUpTo(n))]))
CitedIn(ms, s) ==
  {SelectSeq(SubSeq(s, ms[i].index + 1, ms[i].end), LAMBDA ch : ch \in Digit) : i \in 1..Len(ms)}
RfcsCited(line) == CitedIn(AllMatches(RFC_REFERENCE_RE, Trim(line), 0), Trim(line))

\* C21: after every scanned line the current reference subsection is the
\* class (normative, informative, unclassified, or none) of the most recent
\* body line of the shape 'N.M. title' that is no table of contents line, also
\* when that heading follows another subsection heading directly; and every
\* entry of the reference section bucket carries the class of the most recent
\* such heading above a line that cites it.
C21_SubsectionFollowsLastHeading ==
  Scanning =>
    /\ txt.locals[1].currentSubSection = HeadingClassAt(txt.lineIdx)
    /\ \A k \in 1..Len(txt.locals[1].data.extractedElements.referenceSectionRfc) :
         LET e == txt.locals[1].data.extractedElements.referenceSectionRfc[k]
         IN \E n \in BodyLinesUpTo(txt.lineIdx) :
              e.value \in RfcsCited(txt.rawText[n]) /\ e.subsection = HeadingClassAt(n)


\* what the text says about code: the lines up to n the scan reads (not blank,
\* no page break), the lines below a begin marker that no end marker has
\* closed, and the lines that look like code
ScannedUpTo(n) ==
  {k \in 1..n : Trim(txt.rawText[k]) # <<>> /\ ~HasChar(txt.rawText[k], "\f")}
HoldsCodeBegins(k) == RegexTest(CODE_BEGINS_RE, txt.rawText[k])
HoldsCodeEnds(k) == RegexTest(CODE_ENDS_RE, txt.rawText[k])
InsideCodeBlock(k) ==
  \E b \in ScannedUpTo(k - 1) :
    HoldsCodeBegins(b) /\ \A j \in (b + 1)..k : ~HoldsCodeEnds(j)
LooksLikeCode(k) == RegexTest(INLINE_CODE_FORMAT, txt.rawText[k])
InlineCodeLines(data) ==
  [k \in 1..Len(data.possibleIssues.inlineCode) |-> data.possibleIssues.inlineCode[k].line]

\* C22: after every scanned line possibleIssues.inlineCode holds, in the order
\* of the text and once each, the 1-based numbers of the scanned lines that
\* hold '/*' or '*/' or start with optional spaces and '#' and do not lie
\* between a '<CODE BEGINS>' line and the next '<CODE ENDS>' line, also when
\* the scanned line before was recorded too; and contains.codeBlocks is true
\* exactly when a scanned line holds '<CODE BEGINS>'.
C22_InlineCodeOutsideCodeBlocks ==
  Scanning =>
    /\ \A k \in ScannedUpTo(txt.lineIdx) :
         Cardinality({i \in DOMAIN InlineCodeLines(txt.locals[1].data) :
                        InlineCodeLines(txt.locals[1].data)[i] = k})
           = IF LooksLikeCode(k) /\ ~InsideCodeBlock(k) /\ ~HoldsCodeBegins(k) THEN 1 ELSE 0
    /\ txt.locals[1].data.contains.codeBlocks
         = (\E k \in ScannedUpTo(txt.lineIdx) : HoldsCodeBegins(k))


\* the scanned lines of the text below its first, each with the scanned line
\* before it: a line closes the header when more than one line number lies
\* between the two
LineBefore(k) == Max(ScannedUpTo(k - 1))
AfterGap(k) == ScannedUpTo(k - 1) # {} /\ k > LineBefore(k) + 1
Unindented(k) == txt.rawText[k][1] # " "
GapLinesUpTo(n) == {k \in ScannedUpTo(n) : AfterGap(k)}
\* the header lines of a header only an unindented line closes: every scanned
\* line up to that line, the gap measured from the header line before
UnindentedGapLinesUpTo(n) == {k \in GapLinesUpTo(n) : Unindented(k)}
TitleIs(c, k) ==
  /\ c.markers.header.closed
  /\ c.markers.title = k
  /\ c.data.title = Some(Trim(txt.rawText[k]))
NoTitle(c) == ~c.markers.header.closed /\ c.markers.title = 0 /\ c.data.title = Null

HeaderLineStep ==
  /\ Scanning
  /\ txt'.pc = "scan"
  /\ txt'.lineIdx = txt.lineIdx + 1
  /\ txt.locals[1].markers.header.start # 0
  /\ txt'.locals[1].markers.header.end = txt'.lineIdx
ColumnsOfLine(k) == LINE_VALUES_EXTRACT_RE(txt.rawText[k])
HoldsOrganisation(columns) ==
  columns.found /\ columns.right # <<>> /\ ~RegexTest(AUTHOR_NAME_RE, columns.right)
AuthorsOf(c) == c.data.header.authors
WithoutOrg(authors) == {k \in 1..Len(authors) : authors[k].org = Null}
OrgsKept(before, after) ==
  /\ Len(after) >= Len(before)
  /\ \A k \in 1..Len(before) : before[k].org # Null => after[k] = before[k]

IsPrefix(a, b) == Len(a) <= Len(b) /\ SubSeq(b, 1, Len(a)) = a
ScanStep == Scanning /\ txt'.pc = "scan" /\ txt'.lineIdx = txt.lineIdx + 1 /\ txt'.locals # Null
TokensOf(ms, s) == {SubSeq(s, ms[i].index + 1, ms[i].end) : i \in 1..Len(ms)}
DraftsCited(line) == TokensOf(AllMatches(NON_RFC_REFERENCE_RE, Trim(line), 0), Trim(line))
CitedOnLine(k, Cited(_)) == IF k \in ScannedUpTo(k) THEN Cited(txt.rawText[k]) ELSE {}

\* the RFC numbers the scanned lines cite, and those a bucket holds
ElementsOfSeq(seq) == {seq[k] : k \in 1..Len(seq)}
NumbersOf(ms, s) ==
  [i \in 1..Len(ms) |-> SelectSeq(SubSeq(s, ms[i].index + 1, ms[i].end), LAMBDA ch : ch \in Digit)]
Citations(line) == NumbersOf(AllMatches(RFC_REFERENCE_RE, Trim(line), 0), Trim(line))
RECURSIVE CitationsUpTo(_)
CitationsUpTo(n) ==
  IF n = 0 THEN <<>>
  ELSE CitationsUpTo(n - 1) \o (IF n \in ScannedUpTo(n) THEN Citations(txt.rawText[n]) ELSE <<>>)
RfcsCitedUpTo(n) == UNION {RfcsCited(txt.rawText[k]) : k \in ScannedUpTo(n)}
ValuesOf(bucket) == [k \in 1..Len(bucket) |-> bucket[k].value]
NoValueTwice(values) == \A i, j \in 1..Len(values) : values[i] = values[j] => i = j
ReferencesHeadingUpTo(n) ==
  \E k \in ScannedUpTo(n) : FindMatcher(sectionMatchers, Trim(txt.rawText[k])) = "references"

\* C25 as stated: the reference section bucket never holds a value twice, and
\* the other bucket holds one entry for every citation outside the references
\* section: in a text without a References heading, every citation in order.
C25_OneEntryPerOccurrenceOutside ==
  Scanning =>
    /\ NoValueTwice(ValuesOf(txt.locals[1].data.extractedElements.referenceSectionRfc))
    /\ ~ReferencesHeadingUpTo(txt.lineIdx) =>
         txt.locals[1].data.extractedElements.nonReferenceSectionRfc = CitationsUpTo(txt.lineIdx)

\* C25: neither bucket ever holds a value twice: a step of the scan leaves
\* both buckets without a repeated value, keeps the entries they held, and
\* the values the two hold after the step are those they held before and the
\* RFC numbers its line cites.
C25_NoValueTwiceInEitherBucket ==
  [][ScanStep =>
       /\ NoValueTwice(ValuesOf(txt'.locals[1].data.extractedElements.referenceSectionRfc))
       /\ NoValueTwice(txt'.locals[1].data.extractedElements.nonReferenceSectionRfc)
       /\ IsPrefix(txt.locals[1].data.extractedElements.referenceSectionRfc,
                   txt'.locals[1].data.extractedElements.referenceSectionRfc)
       /\ IsPrefix(txt.locals[1].data.extractedElements.nonReferenceSectionRfc,
                   txt'.locals[1].data.extractedElements.nonReferenceSectionRfc)
       /\ ElementsOfSeq(ValuesOf(txt'.locals[1].data.extractedElements.referenceSectionRfc))
            \cup ElementsOfSeq(txt'.locals[1].data.extractedElements.nonReferenceSectionRfc)
            = ElementsOfSeq(ValuesOf(txt.locals[1].data.extractedElements.referenceSectionRfc))
                \cup ElementsOfSeq(txt.locals[1].data.extractedElements.nonReferenceSectionRfc)
                \cup CitedOnLine(txt'.lineIdx, RfcsCited)]_vars

\* C25 witness: a text without a References heading has cited one RFC on two
\* lines and another on a third, and the bucket holds each once
C25_Witness ==
  /\ Scanning
  /\ ~ReferencesHeadingUpTo(txt.lineIdx)
  /\ Len(CitationsUpTo(txt.lineIdx)) = 3
  /\ Len(txt.locals[1].data.extractedElements.nonReferenceSectionRfc) = 2


\* C26: every line possibleIssues.linesWithSpaces records lies outside the
\* header lines and shows ragged spacing (a letter, a lower case letter, two to
\* four spaces, a lower case letter), and none begins with 'Internet-Draft' or
\* 'INTERNET-DRAFT'.
C26_SpacesOutsideHeaderNoInternetDraft ==
  Scanning =>
    \A i \in 1..Len(txt.locals[1].data.possibleIssues.linesWithSpaces) :
      LET k == txt.locals[1].data.possibleIssues.linesWithSpaces[i].line
      IN /\ k \in ScannedUpTo(txt.lineIdx)
         /\ ~(k >= txt.locals[1].markers.header.start /\ k <= txt.locals[1].markers.header.end)
         /\ RegexTest(SPACING_PATTERN, Trim(txt.rawText[k]))
         /\ ~StartsWith(Trim(txt.rawText[k]), <<"I","n","t","e","r","n","e","t","-","D","r","a","f","t">>)
         /\ ~StartsWith(Trim(txt.rawText[k]), <<"I","N","T","E","R","N","E","T","-","D","R","A","F","T">>)


BucketsFilled(ee, inReferences, rfcs, drafts) ==
  IF inReferences
  THEN /\ rfcs \subseteq ElementsOfSeq(ValuesOf(ee.referenceSectionRfc))
       /\ drafts \subseteq ElementsOfSeq(ValuesOf(ee.referenceSectionDraftReferences))
  ELSE /\ rfcs \subseteq ElementsOfSeq(ee.nonReferenceSectionRfc)
       /\ drafts \subseteq ElementsOfSeq(ee.nonReferenceSectionDraftReferences)
BucketsKept(before, after, inReferences) ==
  IF inReferences
  THEN /\ after.nonReferenceSectionRfc = before.nonReferenceSectionRfc
       /\ after.nonReferenceSectionDraftReferences = before.nonReferenceSectionDraftReferences
  ELSE /\ after.referenceSectionRfc = before.referenceSectionRfc
       /\ after.referenceSectionDraftReferences = before.referenceSectionDraftReferences

\* C27: the RFC and draft references of a line go to the bucket of the section
\* that was current before the line was scanned: when that section is the
\* references section they are in the reference section buckets after the line
\* and the other buckets are as before, also when the line is the heading that
\* ends the references section; otherwise they are in the non-reference
\* buckets and the reference section buckets are as before, also when the line
\* is the References heading.
C27_BucketOfSectionBeforeLine ==
  [][ScanStep =>
       /\ BucketsFilled(txt'.locals[1].data.extractedElements,
                        txt.locals[1].currentSection = "references",
                        CitedOnLine(txt'.lineIdx, RfcsCited),
                        CitedOnLine(txt'.lineIdx, DraftsCited))
       /\ BucketsKept(txt.locals[1].data.extractedElements,
                      txt'.locals[1].data.extractedElements,
                      txt.locals[1].currentSection = "references")]_vars

\* C27 witness: the heading that ended the references section cites an RFC no
\* other line cites, and the reference section bucket holds it
C27_Witness ==
  /\ Scanning
  /\ txt.lineIdx > 1
  /\ RegexTest(SECTION_PATTERN, Trim(txt.rawText[txt.lineIdx]))
  /\ txt.locals[1].currentSection = "null"
  /\ txt.locals[1].markers.references.closed
  /\ txt.locals[1].markers.references.end = txt.lineIdx - 1
  /\ \E v \in RfcsCited(txt.rawText[txt.lineIdx]) :
       /\ v \notin RfcsCitedUpTo(txt.lineIdx - 1)
       /\ v \in ElementsOfSeq(ValuesOf(txt.locals[1].data.extractedElements.referenceSectionRfc))
       /\ v \notin ElementsOfSeq(txt.locals[1].data.extractedElements.nonReferenceSectionRfc)


\* the section a line of the body opens: abstract for the Abstract line, the
\* name the section matchers give a heading, or "null"
SectionOpenedBy(line) ==
  IF Trim(line) = <<"A","b","s","t","r","a","c","t">> THEN "abstract"
  ELSE IF RegexTest(SECTION_PATTERN, Trim(line)) \/ RegexTest(AUTHOR_SECTION_RE, Trim(line))
  THEN FindMatcher(sectionMatchers, Trim(line))
  ELSE "null"
OpenedUpTo(c, n) ==
  [k \in 1..n |-> IF c.markers.slug > 0 /\ k > c.markers.slug /\ Trim(txt.rawText[k]) # <<>>
                  THEN SectionOpenedBy(txt.rawText[k]) ELSE "null"]
Openings(opened, name) == {k \in DOMAIN opened : opened[k] = name}
ContentAsClaimed(c, name, openings) ==
  /\ openings = {} => c.data.content[name] = Null
  /\ openings # {} => c.data.content[name] # Null
  /\ Cardinality(openings) = 1 =>
       /\ c.data.content[name][1] # <<>>
       /\ Head(c.data.content[name][1]) = Trim(txt.rawText[Min(openings)])
  /\ (openings # {} /\ c.data.content[name][1] = <<>>) =>
       Cardinality(openings) > 1 /\ c.markers[name].closed

AddedReferences(before, after) ==
  {after.referenceSectionRfc[k] :
     k \in (Len(before.referenceSectionRfc) + 1)..Len(after.referenceSectionRfc)}
DirectlyUnderReferences(n) ==
  \E r \in BodyLinesUpTo(n) :
    /\ SectionOpenedBy(txt.rawText[r]) = "references"
    /\ \A k \in SubsectionHeadingsUpTo(n) : k < r

\* C29: a step of the scan changes the current reference subsection only when
\* its line is a subsection heading, so no top-level heading and no opening
\* or closing of the references section resets it; and a reference the step
\* extracts directly under a References heading, with no subsection heading
\* below that heading, is tagged with the class of the last subsection heading
\* anywhere above, or with none.
C29_SubsectionOnlyBySubsectionHeadings ==
  [][ScanStep =>
       /\ txt'.locals[1].currentSubSection # txt.locals[1].currentSubSection =>
            /\ txt'.lineIdx \in ScannedUpTo(txt'.lineIdx)
            /\ IsSubsectionHeading(txt.rawText[txt'.lineIdx])
       /\ DirectlyUnderReferences(txt.lineIdx) =>
            \A e \in AddedReferences(txt.locals[1].data.extractedElements,
                                     txt'.locals[1].data.extractedElements) :
              e.subsection = HeadingClassAt(txt.lineIdx)]_vars


\* C30: a call of a reference validator or of vlidateDraftReferences has at
\* most one lookup out at any time, the lookup of reference i + 1 goes out only
\* when the lookups of references 1..i have been answered, the answers are
\* taken in the order of the references, and the list a call returns holds
\* the findings of its references in the order of the references.
C30_LookupsOneAfterAnother ==
  /\ Cardinality(val.inflight) <= 1
  /\ val.pc = "loop" =>
       /\ val.index = Len(val.lookups) + Cardinality(val.inflight)
       /\ val.inflight \subseteq {Len(val.lookups) + 1}
       /\ \A k \in 1..Len(val.lookups) : val.lookups[k].ref = val.refs[k]
  /\ \A c \in FinishedCalls :
       (c.fn \in LookupValidators /\ c.thrown = "none") =>
         /\ c.refs = [k \in 1..Len(c.lookups) |-> c.lookups[k].ref]
         /\ c.result = Flatten([k \in 1..Len(c.refs) |->
                                  IterationOf(c.fn, c.refs[k], RemoteAnswer(c.fn, c.refs[k]),
                                              c.mode)])

\* C30 witness: the lookup of the second reference is out, the first has been
\* answered and its finding is in the list
C30_Witness ==
  /\ val.pc = "loop"
  /\ val.inflight = {2}
  /\ Len(val.lookups) = 1
  /\ Len(val.result) >= 1
  /\ val.refs[1] # val.refs[2]

====
